---- MODULE Spec2Model ----
(***************************************************************************)
(* Model of the production-report reconciliation engine                    *)
(* (src/production_functions.py): plan normalizer, actual normalizer,      *)
(* cumulative-to-daywise converter, plan/actual matcher, empty-row pruner  *)
(* and cumulative aggregator, and the order in which do_everything runs    *)
(* them.                                                                   *)
(*                                                                         *)
(* Rows are records.  The five stage quantities of a row are one field     *)
(* holding a function over Stages (Planned / Actual), instead of five      *)
(* parallel dictionary keys.  A date string 'DD/Mon/YY' is the record      *)
(* [d, b, y] of its three parts; a datetime is the record                  *)
(* [year, month, day].                                                     *)
(***************************************************************************)
EXTENDS Integers, Sequences, FiniteSets, TLC

VARIABLES
    pc,                  \* position of the run inside do_everything / the sheet loop
    style_number,        \* the style (plan sheet name) being processed
    plan_sheet,          \* raw plan sheet: the rows of df (input)
    index,               \* plan normalizer: next df row to process (0-based, as in iterrows)
    parsed_dates,        \* plan normalizer: parsed_dates_with_indices
    result_list,         \* plan normalizer: accepted rows (plan_data_for_style)
    skipped_rows,        \* plan normalizer: excel rows dropped for their date
    year_cautions,       \* plan normalizer: chronology cautions printed
    year_fixes,          \* plan normalizer: year auto-corrections printed
    raw_actual,          \* raw rows of the daily production workbook (input)
    daily_prod_data,     \* rows accepted by the actual normalizer (cumulative)
    daily_prod_daywise,  \* output of the day-wise converter
    clamp_warnings,      \* converter: negative day-wise quantity warnings
    matched_rows,        \* output of the matcher, then of the pruner
    unplanned_rows,      \* matcher: diagnostics for actual rows not in the plan
    report_rows,         \* output of the cumulative aggregator (matched_data_by_style[style])
    output_file,         \* rows of the style's sheet in the written workbook
    plan_book,           \* the plan workbook: its sheets in order (input)
    style_numbers,       \* do_everything: style_numbers
    style_index,         \* do_everything: position of the style loop in style_numbers
    matched_data_by_style, \* do_everything: the styles stored so far, in insertion order
    disk_file,           \* the file at the output path: NoFile or the workbook written
    clicks,              \* app: number of "Generate Report" clicks so far
    app_status           \* app: what the last click displayed and offered for download

vars == <<pc, style_number, plan_sheet, index, parsed_dates, result_list,
          skipped_rows, year_cautions, year_fixes, raw_actual, daily_prod_data,
          daily_prod_daywise, clamp_warnings, matched_rows, unplanned_rows,
          report_rows, output_file, plan_book, style_numbers, style_index,
          matched_data_by_style, disk_file, clicks, app_status>>

\* The variables of the style loop, of the output path and of the app.
run_vars == <<plan_book, style_numbers, style_index, matched_data_by_style,
              disk_file, clicks, app_status>>

\* No file at the output path.
NoFile == [exists |-> FALSE, sheets |-> <<>>, written_by |-> 0]

\* Nothing displayed yet.
NothingShown == [shown |-> "none", download |-> NoFile]

\* One style on its own, outside the style loop and the app.
SingleStyle ==
    /\ plan_book = <<>>
    /\ style_numbers = <<>>
    /\ style_index = 0
    /\ matched_data_by_style = <<>>
    /\ disk_file = NoFile
    /\ clicks = 0
    /\ app_status = NothingShown

----------------------------------------------------------------------------
(* Fixed domain data *)

Stages == {"Cutting", "Sewing", "Washing", "Finishing", "Packing"}

ZeroQty == [s \in Stages |-> 0]

\* A quantity vector that is non-zero in Cutting and Sewing only.
Qty2(c, s) == [st \in Stages |-> IF st = "Cutting" THEN c
                                  ELSE IF st = "Sewing" THEN s ELSE 0]

SeqsUpTo(S, n) == UNION {[1..k -> S] : k \in 0..n}

\* The sum of f[x] over the finite set S.
RECURSIVE SumOver(_, _)
SumOver(S, f) ==
    IF S = {} THEN 0
    ELSE LET x == CHOOSE y \in S : TRUE
         IN  f[x] + SumOver(S \ {x}, f)

----------------------------------------------------------------------------
(* Strings: str.strip / str.upper / str.lower / re.sub(r'\s+', ' ')        *)
(* over the finite set of strings the model uses.                          *)

Strip(s) ==
    CASE s = " 100"        -> "100"
      [] s = "A1 "         -> "A1"
      [] s = " Light  Blue " -> "Light  Blue"
      [] OTHER             -> s

Upper(s) ==
    CASE s = "a1" -> "A1"
      [] s = "b2" -> "B2"
      [] s = "red" -> "RED"
      [] s = "blue" -> "BLUE"
      [] OTHER    -> s

Lower(s) ==
    CASE s = "Red"        -> "red"
      [] s = "RED"        -> "red"
      [] s = "Blue"       -> "blue"
      [] s = "Light Blue" -> "light blue"
      [] s = "A1"         -> "a1"
      [] OTHER            -> s

CollapseSpaces(s) ==
    CASE s = "Light  Blue" -> "Light Blue"
      [] OTHER             -> s

\* Python's ordering of the strings that occur as keys (str.__lt__).
StrRank(s) ==
    CASE s = ""           -> 0
      [] s = "100"        -> 1
      [] s = "200"        -> 2
      [] s = "999"        -> 3
      [] s = "A1"         -> 4
      [] s = "B2"         -> 5
      [] s = "a1"         -> 6
      [] s = "blue"       -> 7
      [] s = "green"      -> 8
      [] s = "light blue" -> 9
      [] s = "red"        -> 10
      [] OTHER            -> 11

StrRankBase == 12

----------------------------------------------------------------------------
(* Dates *)

IsLeap(y) == (y % 4 = 0) /\ ((y % 100 # 0) \/ (y % 400 = 0))

DaysInMonth(y, m) ==
    IF m = 2 THEN (IF IsLeap(y) THEN 29 ELSE 28)
    ELSE IF m \in {4, 6, 9, 11} THEN 30 ELSE 31

\* What datetime's constructor accepts.
ValidDate(dt) ==
    /\ dt.year \in 1..9999
    /\ dt.month \in 1..12
    /\ dt.day \in 1..DaysInMonth(dt.year, dt.month)

\* datetime.strftime('%d/%b/%y'): the year keeps its last two digits only.
Strftime(dt) == [d |-> dt.day, b |-> dt.month, y |-> dt.year % 100]

\* datetime.strptime(s, '%d/%b/%y'): two-digit years 69..99 are 19xx, 00..68 are 20xx.
Strptime(ds) ==
    [year |-> IF ds.y >= 69 THEN 1900 + ds.y ELSE 2000 + ds.y,
     month |-> ds.b, day |-> ds.d]

\* Chronological order of datetimes, as one integer.
Ordinal(dt) == dt.year * 10000 + dt.month * 100 + dt.day

\* Lexicographic order of the date strings as Python compares str
\* (day digits first, then the month name, then the year digits).
MonthNameRank(m) ==
    CASE m = 1 -> 5 [] m = 2 -> 4 [] m = 3 -> 8 [] m = 4 -> 1 [] m = 5 -> 9
      [] m = 6 -> 7 [] m = 7 -> 6 [] m = 8 -> 2 [] m = 9 -> 12 [] m = 10 -> 11
      [] m = 11 -> 10 [] OTHER -> 3

StringOrdinal(ds) == ds.d * 10000 + MonthNameRank(ds.b) * 100 + ds.y

----------------------------------------------------------------------------
(* list.sort(key=...) is stable: the result is the one permutation that    *)
(* orders by key and keeps the input order of equal keys.                  *)

SortPosition(keys, j) ==
    Cardinality({k \in 1..Len(keys) :
                    \/ keys[k] < keys[j]
                    \/ (keys[k] = keys[j] /\ k < j)}) + 1

StableOrder(keys) ==
    [i \in 1..Len(keys) |-> CHOOSE j \in 1..Len(keys) : SortPosition(keys, j) = i]

StableSortBy(rows, keys) ==
    LET perm == StableOrder(keys)
    IN  [i \in 1..Len(rows) |-> rows[perm[i]]]

----------------------------------------------------------------------------
(* Day-wise converter: convert_cumulative_to_daywise_quantities_for_daily_prod *)

\* combo_key = (style.strip().upper(), po.strip(), colour.strip().lower())
ComboKey(row) == <<Upper(Strip(row.StyleNo)), Strip(row.PO), Lower(Strip(row.Colour))>>

\* dated_rows left in the order of the input list.
DatedRowsInInputOrder(data) == data

\* dated_rows.sort(key=lambda x: x[0])
DatedRows(data) ==
    StableSortBy(data, [i \in 1..Len(data) |-> Ordinal(Strptime(data[i].Date))])

\* cumulative - previous, before any clamping
RawDelta(row, prev) == [s \in Stages |-> row.Actual[s] - prev.quantities[s]]

\* A clamp that zeroes every stage of the row.
ClampedDeltaAllStages(row, prev) == [s \in Stages |-> 0]

ClampedDelta(row, prev) ==
    [s \in Stages |-> IF RawDelta(row, prev)[s] < 0 THEN 0 ELSE RawDelta(row, prev)[s]]

AnyNegative(delta) == \E s \in Stages : delta[s] < 0

\* DaywiseOf with the max(0, ...) of lines 768-772 left out.
DaywiseOfUnclamped(row, previous) ==
    IF ComboKey(row) \in DOMAIN previous
    THEN RawDelta(row, previous[ComboKey(row)])
    ELSE row.Actual

\* The day-wise quantities of one row given the tracking dictionary.
DaywiseOf(row, previous) ==
    IF ComboKey(row) \in DOMAIN previous
    THEN IF AnyNegative(RawDelta(row, previous[ComboKey(row)]))
         THEN ClampedDelta(row, previous[ComboKey(row)])
         ELSE RawDelta(row, previous[ComboKey(row)])
    ELSE row.Actual

\* previous_quantities_by_combo[combo_key] = {date, quantities} of the current row
Snapshot(row) == [date |-> Strptime(row.Date), quantities |-> row.Actual]

\* updated_row: the key fields and provenance copied, the quantities day-wise
\* ('Order Quantity' is not carried over).
UpdatedRow(row, previous) ==
    [StyleNo |-> row.StyleNo, PO |-> row.PO, Colour |-> row.Colour, Date |-> row.Date,
     Actual |-> DaywiseOf(row, previous),
     SourceSheet |-> row.SourceSheet, SourceRow |-> row.SourceRow]

ClampWarning(row, previous) ==
    [key |-> ComboKey(row), current |-> row.Date,
     previous |-> Strftime(previous[ComboKey(row)].date)]

\* The loop with the snapshot left at its old value whenever the row was clamped.
RECURSIVE ConvertLoopKeepingSnapshot(_, _, _)
ConvertLoopKeepingSnapshot(rows, i, acc) ==
    IF i > Len(rows) THEN acc
    ELSE LET row  == rows[i]
             key  == ComboKey(row)
             warn == /\ key \in DOMAIN acc.previous
                     /\ AnyNegative(RawDelta(row, acc.previous[key]))
         IN  ConvertLoopKeepingSnapshot(rows, i + 1,
                [previous |-> IF warn THEN acc.previous
                              ELSE (key :> Snapshot(row)) @@ acc.previous,
                 result   |-> Append(acc.result, UpdatedRow(row, acc.previous)),
                 warnings |-> IF warn
                              THEN Append(acc.warnings, ClampWarning(row, acc.previous))
                              ELSE acc.warnings])

\* The loop over dated_rows; acc = [previous, result, warnings].
RECURSIVE ConvertLoop(_, _, _)
ConvertLoop(rows, i, acc) ==
    IF i > Len(rows) THEN acc
    ELSE LET row  == rows[i]
             key  == ComboKey(row)
             warn == /\ key \in DOMAIN acc.previous
                     /\ AnyNegative(RawDelta(row, acc.previous[key]))
         IN  ConvertLoop(rows, i + 1,
                [previous |-> (key :> Snapshot(row)) @@ acc.previous,
                 result   |-> Append(acc.result, UpdatedRow(row, acc.previous)),
                 warnings |-> IF warn
                              THEN Append(acc.warnings, ClampWarning(row, acc.previous))
                              ELSE acc.warnings])

ConvertRun(data) ==
    ConvertLoop(DatedRows(data), 1,
                [previous |-> <<>>, result |-> <<>>, warnings |-> <<>>])

ConvertCumulativeToDaywise(data) == ConvertRun(data).result

----------------------------------------------------------------------------
(* Plan/actual matcher: match_plan_with_actual *)

\* The ascending sequence of a finite set under an injective integer key
\* (key is a function on S).
SortSetBy(S, key) ==
    [k \in 1..Cardinality(S) |->
        CHOOSE x \in S : Cardinality({y \in S : key[y] < key[x]}) = k - 1]

\* Keys of a dict in insertion order: first occurrences of the inserted keys.
InsertionOrder(keys) ==
    LET first == {i \in 1..Len(keys) : \A j \in 1..(i - 1) : keys[j] # keys[i]}
        idx   == SortSetBy(first, [i \in first |-> i])
    IN  [k \in 1..Len(idx) |-> keys[idx[k]]]

RECURSIVE FlattenSeqs(_, _)
FlattenSeqs(seqs, i) ==
    IF i > Len(seqs) THEN <<>> ELSE seqs[i] \o FlattenSeqs(seqs, i + 1)

\* RowsForStyle comparing the styles as written (no .upper()).
RowsForStyleCaseSensitive(data, style) ==
    SelectSeq(data, LAMBDA row : Strip(row.StyleNo) = Strip(style))

\* row['Style No'].strip().upper() == style_number.strip().upper()
RowsForStyle(data, style) ==
    SelectSeq(data, LAMBDA row : Upper(Strip(row.StyleNo)) = Upper(Strip(style)))

\* combo_key = (po.strip(), colour.strip().lower())
PoColour(row) == <<Strip(row.PO), Lower(Strip(row.Colour))>>

\* rows_by_combo[combo][date] = row: the keys, the dates and the stored row
\* (a later row with the same combo and date overwrites the earlier one).
ComboSeq(rows) == InsertionOrder([i \in 1..Len(rows) |-> PoColour(rows[i])])

ComboSet(rows) == {PoColour(rows[i]) : i \in 1..Len(rows)}

DateSeqOf(rows, combo) ==
    LET mine == SelectSeq(rows, LAMBDA row : PoColour(row) = combo)
    IN  InsertionOrder([i \in 1..Len(mine) |-> mine[i].Date])

DateSetOf(rows, combo) ==
    {rows[i].Date : i \in {j \in 1..Len(rows) : PoColour(rows[j]) = combo}}

StoredRow(rows, combo, date) ==
    LET hits == {i \in 1..Len(rows) : PoColour(rows[i]) = combo /\ rows[i].Date = date}
    IN  rows[CHOOSE i \in hits : \A j \in hits : j <= i]

\* plan_pos and plan_colours_by_po
PlanPos(plan) == {PoColour(plan[i])[1] : i \in 1..Len(plan)}

PlanColoursByPo(plan, po) ==
    {PoColour(plan[i])[2] : i \in {j \in 1..Len(plan) : PoColour(plan[j])[1] = po}}

\* ErrorDetail listing the colours of every purchase order of the plan.
ErrorDetailAllColours(plan, combo) ==
    IF combo[1] \notin PlanPos(plan)
    THEN [kind |-> "unknown_po", available |-> {}]
    ELSE [kind |-> "unlisted_colour",
          available |-> {PoColour(plan[i])[2] : i \in 1..Len(plan)}]

\* error_detail of one unplanned actual row
ErrorDetail(plan, combo) ==
    IF combo[1] \notin PlanPos(plan)
    THEN [kind |-> "unknown_po", available |-> {}]
    ELSE IF combo[2] \notin PlanColoursByPo(plan, combo[1])
    THEN [kind |-> "unlisted_colour", available |-> PlanColoursByPo(plan, combo[1])]
    ELSE [kind |-> "not_in_plan", available |-> {}]

UnplannedOfCombo(plan, actual, combo) ==
    LET dates == DateSeqOf(actual, combo)
    IN  [k \in 1..Len(dates) |->
            [po |-> combo[1], colour |-> combo[2], date |-> dates[k],
             source_row |-> StoredRow(actual, combo, dates[k]).SourceRow,
             error |-> ErrorDetail(plan, combo)]]

\* Step 3: one diagnostic per stored actual row whose combo is not in the plan.
UnplannedRows(plan_data, daywise, style) ==
    LET plan    == RowsForStyle(plan_data, style)
        actual  == RowsForStyle(daywise, style)
        combos  == SelectSeq(ComboSeq(actual), LAMBDA c : c \notin ComboSet(plan))
    IN  FlattenSeqs([k \in 1..Len(combos) |-> UnplannedOfCombo(plan, actual, combos[k])], 1)

\* sorted(plan_by_combo.keys()): tuples of strings in Python's order
ComboRank(combo) == StrRank(combo[1]) * StrRankBase + StrRank(combo[2])

\* The dates sorted as the strings 'DD/Mon/YY'.
SortedDatesAsStrings(dates) == SortSetBy(dates, [ds \in dates |-> StringOrdinal(ds)])

\* date_objects.sort(key=lambda x: x[1]): chronological
SortedDates(dates) == SortSetBy(dates, [ds \in dates |-> Ordinal(Strptime(ds))])

MatchedRow(plan, actual, style, combo, date) ==
    [StyleNo |-> style, PO |-> combo[1], Colour |-> combo[2], Date |-> date,
     Planned |-> IF date \in DateSetOf(plan, combo)
                 THEN StoredRow(plan, combo, date).Planned ELSE ZeroQty,
     Actual  |-> IF date \in DateSetOf(actual, combo)
                 THEN StoredRow(actual, combo, date).Actual ELSE ZeroQty]

MatchedOfCombo(plan, actual, style, combo) ==
    LET dates == SortedDates(DateSetOf(plan, combo) \cup DateSetOf(actual, combo))
    IN  [k \in 1..Len(dates) |-> MatchedRow(plan, actual, style, combo, dates[k])]

\* Step 4: the matched rows, plan combos in sorted order, dates ascending.
MatchPlanWithActual(plan_data, daywise, style) ==
    LET plan   == RowsForStyle(plan_data, style)
        actual == RowsForStyle(daywise, style)
        combos == SortSetBy(ComboSet(plan), [c \in ComboSet(plan) |-> ComboRank(c)])
    IN  FlattenSeqs([k \in 1..Len(combos) |->
                        MatchedOfCombo(plan, actual, style, combos[k])], 1)

----------------------------------------------------------------------------
(* Row pruner: delete_empty_rows *)

VectorSum(q) ==
    q["Cutting"] + q["Sewing"] + q["Washing"] + q["Finishing"] + q["Packing"]

\* total_quantity: the sum of the ten quantities
TotalQuantity(row) == VectorSum(row.Planned) + VectorSum(row.Actual)

\* The pruner returning the surviving rows last to first.
DeleteEmptyRowsReversed(rows) ==
    LET kept == SelectSeq(rows, LAMBDA row : TotalQuantity(row) # 0)
    IN  [i \in 1..Len(kept) |-> kept[Len(kept) + 1 - i]]

DeleteEmptyRows(rows) == SelectSeq(rows, LAMBDA row : TotalQuantity(row) # 0)

----------------------------------------------------------------------------
(* Cumulative aggregator: add_cumulative_columns_to_matched_dict *)

\* date_obj.strftime('%A')
DaysBeforeYear(y) == 365 * (y - 1) + ((y - 1) \div 4) - ((y - 1) \div 100) + ((y - 1) \div 400)

RECURSIVE DaysBeforeMonth(_, _)
DaysBeforeMonth(y, m) ==
    IF m = 1 THEN 0 ELSE DaysBeforeMonth(y, m - 1) + DaysInMonth(y, m - 1)

ToOrdinal(dt) == DaysBeforeYear(dt.year) + DaysBeforeMonth(dt.year, dt.month) + dt.day

DayName(dt) ==
    <<"Monday", "Tuesday", "Wednesday", "Thursday", "Friday", "Saturday",
      "Sunday">>[((ToOrdinal(dt) + 6) % 7) + 1]

\* group_key = (Style No, PO, Colour), exactly as stored in the row
GroupKey(row) == <<row.StyleNo, row.PO, row.Colour>>

GroupSeq(rows) == InsertionOrder([i \in 1..Len(rows) |-> GroupKey(rows[i])])

\* rows_with_dates of one group after rows_with_dates.sort(key=lambda x: x[1])
GroupRows(rows, key) ==
    LET mine == SelectSeq(rows, LAMBDA row : GroupKey(row) = key)
    IN  StableSortBy(mine, [i \in 1..Len(mine) |-> Ordinal(Strptime(mine[i].Date))])

AddQty(a, b) == [s \in Stages |-> a[s] + b[s]]

SubQty(a, b) == [s \in Stages |-> a[s] - b[s]]

\* current_date_total_*: the sum over every row of the group on that date
RECURSIVE DateTotal(_, _, _, _)
DateTotal(rows, i, date, field) ==
    IF i > Len(rows) THEN ZeroQty
    ELSE IF Strptime(rows[i].Date) = date
         THEN AddQty(rows[i][field], DateTotal(rows, i + 1, date, field))
         ELSE DateTotal(rows, i + 1, date, field)

NoDate == [year |-> 0, month |-> 0, day |-> 0]

\* The date check leaving out the comparison with current_date: the date's
\* total is folded in at every row.
EnterDateAtEveryRow(rows, st, date) ==
    LET cp == IF st.current_date # NoDate
              THEN AddQty(st.cum_planned, st.total_planned) ELSE st.cum_planned
        ca == IF st.current_date # NoDate
              THEN AddQty(st.cum_actual, st.total_actual) ELSE st.cum_actual
        tp == DateTotal(rows, 1, date, "Planned")
        ta == DateTotal(rows, 1, date, "Actual")
    IN  [cum_planned |-> cp, cum_actual |-> ca, current_date |-> date,
         total_planned |-> tp, total_actual |-> ta,
         cur_planned |-> AddQty(cp, tp), cur_actual |-> AddQty(ca, ta)]

\* Step 2.2.1: the accumulators after the date check for the row at hand.
\* st = [cum_planned, cum_actual, current_date, total_planned, total_actual,
\*       cur_planned, cur_actual]
EnterDate(rows, st, date) ==
    IF st.current_date = NoDate \/ date # st.current_date
    THEN LET cp == IF st.current_date # NoDate
                   THEN AddQty(st.cum_planned, st.total_planned) ELSE st.cum_planned
             ca == IF st.current_date # NoDate
                   THEN AddQty(st.cum_actual, st.total_actual) ELSE st.cum_actual
             tp == DateTotal(rows, 1, date, "Planned")
             ta == DateTotal(rows, 1, date, "Actual")
         IN  [cum_planned |-> cp, cum_actual |-> ca, current_date |-> date,
              total_planned |-> tp, total_actual |-> ta,
              cur_planned |-> AddQty(cp, tp), cur_actual |-> AddQty(ca, ta)]
    ELSE st

\* The variance of the date at hand alone, not of the running totals.
CumulativeDiffOfDate(st) == SubQty(st.total_actual, st.total_planned)

\* cumulative_diff_* = current_date_cumulative_actual_* - current_date_cumulative_planned_*
CumulativeDiff(st) == SubQty(st.cur_actual, st.cur_planned)

\* Step 2.2.6: new_row
NewRow(row, st) ==
    [StyleNo |-> row.StyleNo, PO |-> row.PO, Colour |-> row.Colour, Date |-> row.Date,
     Day |-> DayName(Strptime(row.Date)),
     Planned |-> row.Planned, Actual |-> row.Actual,
     DayDiff |-> SubQty(row.Actual, row.Planned),
     CumPlanned |-> st.cur_planned, CumActual |-> st.cur_actual,
     CumDiff |-> CumulativeDiff(st)]

AggInit ==
    [cum_planned |-> ZeroQty, cum_actual |-> ZeroQty, current_date |-> NoDate,
     total_planned |-> ZeroQty, total_actual |-> ZeroQty,
     cur_planned |-> ZeroQty, cur_actual |-> ZeroQty]

RECURSIVE AggLoop(_, _, _)
AggLoop(rows, i, st) ==
    IF i > Len(rows) THEN <<>>
    ELSE LET st2 == EnterDate(rows, st, Strptime(rows[i].Date))
         IN  <<NewRow(rows[i], st2)>> \o AggLoop(rows, i + 1, st2)

AggregateGroup(rows, key) == AggLoop(GroupRows(rows, key), 1, AggInit)

\* result_rows.sort(key=(Style No, PO, Colour, date)): the textual part of the key
ReportSortKey(row) ==
    (StrRank(row.StyleNo) * StrRankBase + StrRank(row.PO)) * StrRankBase
        + StrRank(row.Colour)

\* The aggregator without its final sort: the groups in insertion order.
AddCumulativeColumnsUnsorted(rows) ==
    LET groups == GroupSeq(rows)
    IN  FlattenSeqs([k \in 1..Len(groups) |-> AggregateGroup(rows, groups[k])], 1)

\* The lexicographic sort on (text, date) is the stable sort on the date
\* followed by the stable sort on the text.
AddCumulativeColumns(rows) ==
    LET groups   == GroupSeq(rows)
        unsorted == FlattenSeqs([k \in 1..Len(groups) |-> AggregateGroup(rows, groups[k])], 1)
        by_date  == StableSortBy(unsorted,
                        [i \in 1..Len(unsorted) |-> Ordinal(Strptime(unsorted[i].Date))])
    IN  StableSortBy(by_date, [i \in 1..Len(by_date) |-> ReportSortKey(by_date[i])])

----------------------------------------------------------------------------
(* Raw cells.  A key cell is a string, "NaN" when blank.  A quantity cell  *)
(* is [kind, tenths]: blank, text (not a number) or the number tenths/10.  *)
(* A date cell is [kind, year, month, day]: blank, bad (dateutil cannot    *)
(* parse it) or the datetime dateutil returns for it.                      *)

IsNa(cell) == cell = "NaN"

BlankQty == [kind |-> "blank", tenths |-> 0]

TextQty == [kind |-> "text", tenths |-> 0]

Num(t) == [kind |-> "num", tenths |-> t]

BlankDate == [kind |-> "blank", year |-> 0, month |-> 0, day |-> 0]

BadDate == [kind |-> "bad", year |-> 0, month |-> 0, day |-> 0]

DateCell(y, m, d) == [kind |-> "date", year |-> y, month |-> m, day |-> d]

DateOf(cell) == [year |-> cell.year, month |-> cell.month, day |-> cell.day]

\* round(float): to the nearest integer, a tie to the even one
PyRound(tenths) ==
    LET q == tenths \div 10
        r == tenths % 10
    IN  IF r < 5 THEN q
        ELSE IF r > 5 THEN q + 1
        ELSE IF q % 2 = 0 THEN q ELSE q + 1

\* Step 5.6 of get_row_wise_data_from_plan: one planned quantity
PlanQuantity(cell) ==
    IF cell.kind = "blank" THEN 0
    ELSE IF cell.kind = "text" THEN 0
    ELSE IF cell.tenths % 10 = 0 THEN cell.tenths \div 10
    ELSE PyRound(cell.tenths)

\* process_quantity of get_row_wise_data_from_daily_prod
ProcessQuantity(cell) ==
    IF cell.kind = "blank" THEN 0
    ELSE IF cell.kind = "text" THEN 0
    ELSE IF cell.tenths < 0 THEN 0
    ELSE IF cell.tenths % 10 = 0 THEN cell.tenths \div 10
    ELSE PyRound(cell.tenths)

\* str(int(v)) if isinstance(v, float) else str(v).strip()
PoStr(cell) ==
    IF IsNa(cell) THEN ""
    ELSE IF cell = "100.0" THEN "100"
    ELSE Strip(cell)

\* strip, collapse runs of whitespace, lower-case
NormColour(cell) ==
    IF IsNa(cell) THEN "" ELSE Lower(CollapseSpaces(Strip(cell)))

----------------------------------------------------------------------------
(* Plan normalizer: get_row_wise_data_from_plan, one df row at a time *)

MinPlausibleYear == 2020

MaxPlausibleYear == 2050

MinNeighbourYear == 2000

MaxNeighbourYear == 2100

EarlyJanuaryDays == 14

NoYear == 0

AllBlank(row) ==
    IsNa(row.style) /\ IsNa(row.po) /\ IsNa(row.colour) /\ row.date.kind = "blank"

Suspicious(dt) == dt.year < MinPlausibleYear \/ dt.year > MaxPlausibleYear

\* year_above: the year of the most recent accepted row
YearAbove(parsed) ==
    IF Len(parsed) > 0 THEN parsed[Len(parsed)].date.year ELSE NoYear

\* year_below: the next df row's year when it parses and looks reasonable
\* (idx is the 0-based df index of the current row)
YearBelow(df, idx) ==
    IF idx + 1 < Len(df)
    THEN LET next == df[idx + 2].date
         IN  IF next.kind = "date" /\ MinNeighbourYear <= next.year
                                   /\ next.year <= MaxNeighbourYear
             THEN next.year ELSE NoYear
    ELSE NoYear

\* A correction that adopts the next row's year whenever there is one.
RepairYearPreferringBelow(above, below) ==
    IF below # NoYear THEN below ELSE above

\* The year the correction adopts, NoYear when the row cannot be repaired.
RepairYear(above, below) ==
    IF above # NoYear /\ below # NoYear /\ above = below THEN above
    ELSE IF above # NoYear /\ below = NoYear THEN above
    ELSE IF above = NoYear /\ below # NoYear THEN below
    ELSE NoYear

\* date_parsed.replace(year=y)
ReplaceYear(dt, y) == [dt EXCEPT !.year = y]

\* The date after the year check: the parsed date, or the corrected one.
ResolvedDate(df, idx, parsed) ==
    LET dt == DateOf(df[idx + 1].date)
    IN  IF Suspicious(dt)
        THEN ReplaceYear(dt, RepairYear(YearAbove(parsed), YearBelow(df, idx)))
        ELSE dt

\* A drop that spills over: the row after an unparseable date is dropped too.
DateDroppedAfterBad(df, idx, parsed) ==
    LET cell == df[idx + 1].date
    IN  \/ cell.kind # "date"
        \/ (idx > 0 /\ df[idx].date.kind = "bad")
        \/ /\ Suspicious(DateOf(cell))
           /\ \/ RepairYear(YearAbove(parsed), YearBelow(df, idx)) = NoYear
              \/ ~ValidDate(ResolvedDate(df, idx, parsed))

\* The row is dropped for its date: blank, unparseable, not repairable, or
\* replace() raised ValueError (caught by the enclosing except).
DateDropped(df, idx, parsed) ==
    LET cell == df[idx + 1].date
    IN  \/ cell.kind # "date"
        \/ /\ Suspicious(DateOf(cell))
           /\ \/ RepairYear(YearAbove(parsed), YearBelow(df, idx)) = NoYear
              \/ ~ValidDate(ResolvedDate(df, idx, parsed))

\* YearCaution accepting a rollover before the 14th of January only.
YearCautionBeforeFortnight(dt, parsed) ==
    IF Len(parsed) = 0 THEN "none"
    ELSE LET prev == parsed[Len(parsed)].date
         IN  IF dt.year > prev.year
             THEN (IF dt.month = 1 /\ dt.day < EarlyJanuaryDays THEN "none" ELSE "increase")
             ELSE IF dt.year < prev.year THEN "decrease"
             ELSE "none"

\* The consecutive-date year check: "increase", "decrease" or "none".
YearCaution(dt, parsed) ==
    IF Len(parsed) = 0 THEN "none"
    ELSE LET prev == parsed[Len(parsed)].date
         IN  IF dt.year > prev.year
             THEN (IF dt.month = 1 /\ dt.day <= EarlyJanuaryDays THEN "none" ELSE "increase")
             ELSE IF dt.year < prev.year THEN "decrease"
             ELSE "none"

\* Step 5.7: row_dict
PlanRowDict(row, dt, style, excel_row) ==
    [StyleNo |-> IF ~IsNa(row.style) /\ Strip(row.style) # ""
                 THEN Strip(row.style) ELSE style,
     PO |-> PoStr(row.po),
     Colour |-> NormColour(row.colour),
     Date |-> Strftime(dt),
     Planned |-> [s \in Stages |-> PlanQuantity(row.qty[s])],
     SourceSheet |-> style, SourceRow |-> excel_row]

\* One iteration of the loop over df.iterrows().
\* st = [parsed, result, skipped, cautions, fixes]
PlanRowStep(df, idx, style, st) ==
    LET row == df[idx + 1]
        excel_row == idx + 2
        dt  == ResolvedDate(df, idx, st.parsed)
    IN  IF AllBlank(row) THEN st
        ELSE IF DateDropped(df, idx, st.parsed)
        THEN [st EXCEPT !.skipped = Append(@, excel_row)]
        ELSE [parsed  |-> Append(st.parsed, [index |-> idx, date |-> dt]),
              result  |-> Append(st.result, PlanRowDict(row, dt, style, excel_row)),
              skipped |-> st.skipped,
              cautions |-> IF YearCaution(dt, st.parsed) # "none"
                           THEN Append(st.cautions,
                                   [row |-> excel_row,
                                    kind |-> YearCaution(dt, st.parsed),
                                    previous_row |-> st.parsed[Len(st.parsed)].index + 2])
                           ELSE st.cautions,
              fixes   |-> IF Suspicious(DateOf(row.date))
                          THEN Append(st.fixes,
                                  [row |-> excel_row, from |-> DateOf(row.date).year,
                                   to |-> dt.year])
                          ELSE st.fixes]

RECURSIVE PlanLoop(_, _, _, _)
PlanLoop(df, idx, style, st) ==
    IF idx >= Len(df) THEN st
    ELSE PlanLoop(df, idx + 1, style, PlanRowStep(df, idx, style, st))

PlanStart == [parsed |-> <<>>, result |-> <<>>, skipped |-> <<>>,
              cautions |-> <<>>, fixes |-> <<>>]

----------------------------------------------------------------------------
(* Actual normalizer: get_row_wise_data_from_daily_prod.  raw_actual is    *)
(* the rows of the workbook in sheet order, each with its sheet's name as  *)
(* dateutil parses it (dayfirst) in the field sheet.                       *)

\* The style token with "PID-" / "PID" removed only where it is a prefix.
StyleTokenPrefixOnly(cell) ==
    IF IsNa(cell) THEN ""
    ELSE CASE Strip(cell) = "PID-A1" -> "A1"
           [] Strip(cell) = "PIDA1"  -> "A1"
           [] Strip(cell) = "PID-a1" -> "a1"
           [] Strip(cell) = "PID-B2" -> "B2"
           [] OTHER                  -> Strip(cell)

\* Step 3.4.3: the style token.  "PID-" in style_full: split("PID-")[1], else
\* "PID" in style_full: split("PID")[1], else style_full; so "X-PID-A1" gives
\* "A1" (the piece after the first "PID-").
StyleToken(cell) ==
    IF IsNa(cell) THEN ""
    ELSE CASE Strip(cell) = "PID-A1"   -> "A1"
           [] Strip(cell) = "PIDA1"    -> "A1"
           [] Strip(cell) = "PID-a1"   -> "a1"
           [] Strip(cell) = "PID-B2"   -> "B2"
           [] Strip(cell) = "X-PID-A1" -> "A1"
           [] OTHER                    -> Strip(cell)

\* A sheet of the daily production workbook is known by its name: the date
\* cell dateutil reads from the name and the way the name writes it.  Two
\* names can write one date.
DailySheetName(cell, writing) ==
    [kind |-> cell.kind, year |-> cell.year, month |-> cell.month, day |-> cell.day,
     writing |-> writing]

ActualBlank(row) == IsNa(row.po) /\ IsNa(row.style) /\ IsNa(row.colour)

\* A sheet whose name is no date is skipped, and so is a sheet that does not
\* read with its nine columns; a wholly blank row is skipped.
ActualAccepted(row) == row.sheet.kind = "date" /\ row.columns /\ ~ActualBlank(row)

\* Step 3.4.6: row_dict
ActualRowDict(row, excel_row) ==
    [StyleNo |-> StyleToken(row.style),
     PO |-> PoStr(row.po),
     Colour |-> NormColour(row.colour),
     Date |-> Strftime(DateOf(row.sheet)),
     OrderQuantity |-> ProcessQuantity(row.oq),
     Actual |-> [s \in Stages |-> ProcessQuantity(row.qty[s])],
     SourceSheet |-> row.sheet, SourceRow |-> excel_row]

\* excel_row_number = index + 2: the index restarts in every sheet (a sheet is
\* its name) and counts the blank rows of the sheet too.
ExcelRowNumber(raw, i) ==
    Cardinality({j \in 1..(i - 1) : raw[j].sheet = raw[i].sheet}) + 2

\* The sheets are read one after the other: the rows of a sheet follow each
\* other, and a sheet reads with its nine columns or does not.
SheetsRowByRow(raw) ==
    \A i, k \in 1..Len(raw) :
        (i < k /\ raw[i].sheet = raw[k].sheet)
            => /\ raw[i].columns = raw[k].columns
               /\ \A j \in i..k : raw[j].sheet = raw[i].sheet

RECURSIVE ActualLoop(_, _)
ActualLoop(raw, i) ==
    IF i > Len(raw) THEN <<>>
    ELSE IF ActualAccepted(raw[i])
         THEN <<ActualRowDict(raw[i], ExcelRowNumber(raw, i))>> \o ActualLoop(raw, i + 1)
         ELSE ActualLoop(raw, i + 1)

GetRowWiseDataFromDailyProd(raw) == ActualLoop(raw, 1)

----------------------------------------------------------------------------
(* Order Quantity lookup and workbook writer *)

\* A lookup in which every row of the key overwrites the entry: the last wins.
OrderQuantityLookupLastWins(data, key) ==
    LET hits == {i \in 1..Len(data) : ComboKey(data[i]) = key}
    IN  IF hits = {} THEN 0
        ELSE data[CHOOSE i \in hits : \A j \in hits : i >= j].OrderQuantity

\* order_quantity_lookup.get(combo_key, 0): the first raw row of the key wins
OrderQuantityLookup(data, key) ==
    LET hits == {i \in 1..Len(data) : ComboKey(data[i]) = key}
    IN  IF hits = {} THEN 0
        ELSE data[CHOOSE i \in hits : \A j \in hits : i <= j].OrderQuantity

Stamped(row, data) ==
    [StyleNo |-> row.StyleNo, PO |-> row.PO, Colour |-> row.Colour, Date |-> row.Date,
     Day |-> row.Day, Planned |-> row.Planned, Actual |-> row.Actual,
     DayDiff |-> row.DayDiff, CumPlanned |-> row.CumPlanned,
     CumActual |-> row.CumActual, CumDiff |-> row.CumDiff,
     OrderQuantity |-> OrderQuantityLookup(data, ComboKey(row))]

StampOrderQuantity(rows, data) == [i \in 1..Len(rows) |-> Stamped(rows[i], data)]

\* The rows written as they were received.
SheetRowsAsReceived(rows) == rows

\* write_production_report_to_excel, Step 2.2: rows_with_dates.sort(key=date)
SheetRows(rows) ==
    StableSortBy(rows, [i \in 1..Len(rows) |-> Ordinal(Strptime(rows[i].Date))])

----------------------------------------------------------------------------
(* Actions *)

\* do_everything, Step 2: extract the daily production rows
ExtractActual ==
    /\ pc = "start"
    /\ daily_prod_data' = GetRowWiseDataFromDailyProd(raw_actual)
    /\ pc' = IF daily_prod_data' = <<>> THEN "aborted" ELSE "convert"
    /\ UNCHANGED <<style_number, plan_sheet, index, parsed_dates, result_list,
                   skipped_rows, year_cautions, year_fixes, raw_actual,
                   daily_prod_daywise, clamp_warnings, matched_rows, unplanned_rows,
                   report_rows, output_file>>
    /\ UNCHANGED run_vars

\* do_everything, Step 3: cumulative to day-wise
Convert ==
    /\ pc = "convert"
    /\ LET run == ConvertRun(daily_prod_data)
       IN  /\ daily_prod_daywise' = run.result
           /\ clamp_warnings' = run.warnings
    /\ pc' = IF daily_prod_daywise' = <<>> THEN "aborted" ELSE "plan"
    /\ UNCHANGED <<style_number, plan_sheet, index, parsed_dates, result_list,
                   skipped_rows, year_cautions, year_fixes, raw_actual,
                   daily_prod_data, matched_rows, unplanned_rows, report_rows,
                   output_file>>
    /\ UNCHANGED run_vars

\* do_everything, Step 4: get_row_wise_data_from_plan for the style, whole sheet
ExtractPlan ==
    /\ pc = "plan"
    /\ LET st == PlanLoop(plan_sheet, 0, style_number, PlanStart)
       IN  /\ parsed_dates' = st.parsed
           /\ result_list' = st.result
           /\ skipped_rows' = st.skipped
           /\ year_cautions' = st.cautions
           /\ year_fixes' = st.fixes
    /\ index' = Len(plan_sheet)
    /\ pc' = IF result_list' = <<>> THEN "style_skipped" ELSE "match"
    /\ UNCHANGED <<style_number, plan_sheet, raw_actual, daily_prod_data,
                   daily_prod_daywise, clamp_warnings, matched_rows, unplanned_rows,
                   report_rows, output_file>>
    /\ UNCHANGED run_vars

\* match_plan_with_actual
Match ==
    /\ pc = "match"
    /\ matched_rows' = MatchPlanWithActual(result_list, daily_prod_daywise, style_number)
    /\ unplanned_rows' = UnplannedRows(result_list, daily_prod_daywise, style_number)
    /\ pc' = IF matched_rows' = <<>> THEN "style_skipped" ELSE "prune"
    /\ UNCHANGED <<style_number, plan_sheet, index, parsed_dates, result_list,
                   skipped_rows, year_cautions, year_fixes, raw_actual,
                   daily_prod_data, daily_prod_daywise, clamp_warnings, report_rows,
                   output_file>>
    /\ UNCHANGED run_vars

\* delete_empty_rows
Prune ==
    /\ pc = "prune"
    /\ matched_rows' = DeleteEmptyRows(matched_rows)
    /\ pc' = IF matched_rows' = <<>> THEN "style_skipped" ELSE "aggregate"
    /\ UNCHANGED <<style_number, plan_sheet, index, parsed_dates, result_list,
                   skipped_rows, year_cautions, year_fixes, raw_actual,
                   daily_prod_data, daily_prod_daywise, clamp_warnings,
                   unplanned_rows, report_rows, output_file>>
    /\ UNCHANGED run_vars

\* add_cumulative_columns_to_matched_dict, then the Order Quantity stamp
Aggregate ==
    /\ pc = "aggregate"
    /\ report_rows' = StampOrderQuantity(AddCumulativeColumns(matched_rows), daily_prod_data)
    /\ pc' = IF report_rows' = <<>> THEN "style_skipped" ELSE "write"
    /\ UNCHANGED <<style_number, plan_sheet, index, parsed_dates, result_list,
                   skipped_rows, year_cautions, year_fixes, raw_actual,
                   daily_prod_data, daily_prod_daywise, clamp_warnings, matched_rows,
                   unplanned_rows, output_file>>
    /\ UNCHANGED run_vars

\* write_production_report_to_excel
Write ==
    /\ pc = "write"
    /\ output_file' = SheetRows(report_rows)
    /\ pc' = "done"
    /\ UNCHANGED <<style_number, plan_sheet, index, parsed_dates, result_list,
                   skipped_rows, year_cautions, year_fixes, raw_actual,
                   daily_prod_data, daily_prod_daywise, clamp_warnings, matched_rows,
                   unplanned_rows, report_rows>>
    /\ UNCHANGED run_vars

\* get_row_wise_data_from_plan: one iteration of the loop over the sheet's rows
PlanRow ==
    /\ pc = "sheet"
    /\ index < Len(plan_sheet)
    /\ LET st == PlanRowStep(plan_sheet, index, style_number,
                             [parsed |-> parsed_dates, result |-> result_list,
                              skipped |-> skipped_rows, cautions |-> year_cautions,
                              fixes |-> year_fixes])
       IN  /\ parsed_dates' = st.parsed
           /\ result_list' = st.result
           /\ skipped_rows' = st.skipped
           /\ year_cautions' = st.cautions
           /\ year_fixes' = st.fixes
    /\ index' = index + 1
    /\ UNCHANGED <<pc, style_number, plan_sheet, raw_actual, daily_prod_data,
                   daily_prod_daywise, clamp_warnings, matched_rows, unplanned_rows,
                   report_rows, output_file>>
    /\ UNCHANGED run_vars

\* get_row_wise_data_from_plan: the loop ends, result_list is returned
PlanReturn ==
    /\ pc = "sheet"
    /\ index = Len(plan_sheet)
    /\ pc' = "returned"
    /\ UNCHANGED <<style_number, plan_sheet, index, parsed_dates, result_list,
                   skipped_rows, year_cautions, year_fixes, raw_actual,
                   daily_prod_data, daily_prod_daywise, clamp_warnings, matched_rows,
                   unplanned_rows, report_rows, output_file>>
    /\ UNCHANGED run_vars

----------------------------------------------------------------------------
(* Inputs *)

\* Date strings 'DD/Mon/YY'
D(d, b, y) == [d |-> d, b |-> b, y |-> y]

----------------------------------------------------------------------------
(* SpecConv: the day-wise converter on every list of up to MaxConvRows     *)
(* accepted actual rows: three keys on two dates, or one key on three      *)
(* dates with a total that dips and recovers.                              *)

MaxConvRows == 3

ConvKeys == {<<"A1", "100", "red">>, <<"a1", "100", "red">>, <<"A1", "100", "blue">>}

ConvDates == {D(1, 1, 25), D(2, 1, 25), D(1, 2, 25)}

ConvQty == {Qty2(10, 0), Qty2(5, 5)}

ConvRowSet ==
    {[StyleNo |-> k[1], PO |-> k[2], Colour |-> k[3], Date |-> d, OrderQuantity |-> 0,
      Actual |-> q, SourceSheet |-> DailySheetName(DateCell(2025, d.b, d.d), "dd-Mon-yyyy"),
      SourceRow |-> 2] :
        k \in ConvKeys, d \in ConvDates \ {D(1, 1, 25)}, q \in ConvQty}

\* One key reporting 10, 5 or 8 pieces cut on each date: a total that dips and
\* recovers.
ConvDipQty == {Qty2(10, 0), Qty2(5, 0), Qty2(8, 0)}

ConvDipRowSet ==
    {[StyleNo |-> "A1", PO |-> "100", Colour |-> "red", Date |-> d, OrderQuantity |-> 0,
      Actual |-> q, SourceSheet |-> DailySheetName(DateCell(2025, d.b, d.d), "dd-Mon-yyyy"),
      SourceRow |-> 2] :
        d \in ConvDates, q \in ConvDipQty}

InitConv ==
    /\ pc = "convert"
    /\ style_number = "A1"
    /\ plan_sheet = <<>>
    /\ index = 0
    /\ parsed_dates = <<>>
    /\ result_list = <<>>
    /\ skipped_rows = <<>>
    /\ year_cautions = <<>>
    /\ year_fixes = <<>>
    /\ raw_actual = <<>>
    /\ daily_prod_data \in SeqsUpTo(ConvRowSet, MaxConvRows)
                            \cup SeqsUpTo(ConvDipRowSet, MaxConvRows)
    /\ daily_prod_daywise = <<>>
    /\ clamp_warnings = <<>>
    /\ matched_rows = <<>>
    /\ unplanned_rows = <<>>
    /\ report_rows = <<>>
    /\ output_file = <<>>
    /\ SingleStyle

NextConv == Convert

SpecConv == InitConv /\ [][NextConv]_vars

----------------------------------------------------------------------------
(* Day-wise converter: reconstruction of the cumulative totals (C1).       *)
(* cin is the input in the order the converter processed it, out the       *)
(* emitted rows (same positions).                                          *)

Converted == pc = "plan" /\ Len(daily_prod_daywise) = Len(daily_prod_data)

TrackingKeysOf(cin) == {ComboKey(cin[i]) : i \in 1..Len(cin)}

\* Positions of the rows of key k dated on or before d.
RowsUpTo(cin, k, d) ==
    {i \in 1..Len(cin) :
        /\ ComboKey(cin[i]) = k
        /\ Ordinal(Strptime(cin[i].Date)) <= Ordinal(Strptime(d))}

DatesOfKey(cin, k) == {cin[i].Date : i \in {j \in 1..Len(cin) : ComboKey(cin[j]) = k}}

MaxOf(S) == CHOOSE i \in S : \A j \in S : j <= i

\* Sum of the emitted day-wise deltas of stage s over the positions in S.
Reconstructed(out, S, s) == SumOver(S, [i \in S |-> out[i].Actual[s]])

\* The key's row before position i, 0 when i is its first row.
PrevOfKey(cin, i) ==
    LET before == {j \in 1..(i - 1) : ComboKey(cin[j]) = ComboKey(cin[i])}
    IN  IF before = {} THEN 0 ELSE MaxOf(before)

\* The delta of stage s at position i was negative before clamping.
StageDropped(cin, i, s) ==
    LET p == PrevOfKey(cin, i)
    IN  p # 0 /\ cin[i].Actual[s] < cin[p].Actual[s]

\* C1 as stated: for every tracking key, stage and date D, the deltas emitted up
\* to D sum to the cumulative value reported at D when no delta of the key was
\* clamped up to D, and to at most that value when one was.
C1_SumAtMostReported ==
    Converted =>
        LET cin == DatedRows(daily_prod_data)
            out == daily_prod_daywise
        IN  \A k \in TrackingKeysOf(cin) : \A d \in DatesOfKey(cin, k) :
              LET S == RowsUpTo(cin, k, d)
                  clamp == \E i \in S : \E t \in Stages : StageDropped(cin, i, t)
              IN  \A s \in Stages :
                    IF clamp
                    THEN Reconstructed(out, S, s) <= cin[MaxOf(S)].Actual[s]
                    ELSE Reconstructed(out, S, s) = cin[MaxOf(S)].Actual[s]

\* C1 amended: the deltas emitted up to D sum to the cumulative value reported at
\* D when no delta of the key was clamped up to D; when one was, the sum is at
\* least that value: equal in a stage none of whose deltas was clamped, strictly
\* greater in a stage one of whose deltas was clamped.
C1_SumAtLeastReported ==
    Converted =>
        LET cin == DatedRows(daily_prod_data)
            out == daily_prod_daywise
        IN  \A k \in TrackingKeysOf(cin) : \A d \in DatesOfKey(cin, k) :
              LET S == RowsUpTo(cin, k, d)
              IN  \A s \in Stages :
                    IF \E i \in S : StageDropped(cin, i, s)
                    THEN Reconstructed(out, S, s) > cin[MaxOf(S)].Actual[s]
                    ELSE Reconstructed(out, S, s) = cin[MaxOf(S)].Actual[s]

\* A converted list in which a key dipped and recovered over three dates.
C1_Witness ==
    /\ Converted
    /\ LET cin == DatedRows(daily_prod_data)
           out == daily_prod_daywise
       IN  \E k \in TrackingKeysOf(cin) : \E d \in DatesOfKey(cin, k) :
             LET S == RowsUpTo(cin, k, d)
             IN  /\ Cardinality(S) = 3
                 /\ Cardinality(DatesOfKey(cin, k)) = 3
                 /\ \E i \in S : StageDropped(cin, i, "Cutting")
                 /\ \A i \in S : ~StageDropped(cin, i, "Sewing")
                 /\ Reconstructed(out, S, "Cutting") > cin[MaxOf(S)].Actual["Cutting"]

----------------------------------------------------------------------------
(* SpecMatch: matcher, pruner and aggregator on every pair of a plan row   *)
(* list and a day-wise actual row list up to MaxMatchRows each.            *)

MaxMatchRows == 2

PlanRowOf(style, po, colour, date, planned) ==
    [StyleNo |-> style, PO |-> po, Colour |-> colour, Date |-> date,
     Planned |-> planned, SourceSheet |-> "A1", SourceRow |-> 2]

DaywiseRowOf(style, po, colour, date, actual) ==
    [StyleNo |-> style, PO |-> po, Colour |-> colour, Date |-> date,
     Actual |-> actual,
     SourceSheet |-> DailySheetName(DateCell(2025, date.b, date.d), "dd-Mon-yyyy"),
     SourceRow |-> 2]

MatchPlanRowSet ==
    {PlanRowOf("A1", "100", "red", D(1, 1, 25), Qty2(50, 0)),
     PlanRowOf("A1", "100", "red", D(2, 1, 25), Qty2(20, 10)),
     PlanRowOf("A1", "100", "green", D(1, 1, 25), Qty2(50, 0)),
     PlanRowOf("A1", "200", "blue", D(1, 1, 25), Qty2(50, 0)),
     PlanRowOf("a1", "100", "red", D(2, 1, 25), Qty2(20, 10)),
     PlanRowOf("B2", "999", "blue", D(1, 1, 25), Qty2(50, 0))}

MatchActualRowSet ==
    {DaywiseRowOf("A1", "100", "red", D(1, 1, 25), Qty2(30, 0)),
     DaywiseRowOf("A1", "100", "red", D(2, 1, 25), Qty2(25, 5)),
     DaywiseRowOf("A1", "100", "blue", D(1, 1, 25), Qty2(30, 0)),
     DaywiseRowOf("A1", "100", "red", D(1, 2, 25), Qty2(25, 5)),
     DaywiseRowOf("a1", "100", "red", D(1, 1, 25), Qty2(0, 0)),
     DaywiseRowOf("A1", "999", "blue", D(1, 1, 25), Qty2(30, 0)),
     DaywiseRowOf("B2", "100", "red", D(1, 1, 25), Qty2(30, 0))}

InitMatch ==
    /\ pc = "match"
    /\ style_number = "A1"
    /\ plan_sheet = <<>>
    /\ index = 0
    /\ parsed_dates = <<>>
    /\ result_list \in SeqsUpTo(MatchPlanRowSet, MaxMatchRows)
    /\ skipped_rows = <<>>
    /\ year_cautions = <<>>
    /\ year_fixes = <<>>
    /\ raw_actual = <<>>
    /\ daily_prod_data = <<>>
    /\ daily_prod_daywise \in SeqsUpTo(MatchActualRowSet, MaxMatchRows)
    /\ clamp_warnings = <<>>
    /\ matched_rows = <<>>
    /\ unplanned_rows = <<>>
    /\ report_rows = <<>>
    /\ output_file = <<>>
    /\ SingleStyle

NextMatch == Match \/ Prune \/ Aggregate \/ Write

SpecMatch == InitMatch /\ [][NextMatch]_vars

----------------------------------------------------------------------------
(* Matcher: keys of the output (C2) and mismatch diagnostics (C8) *)

SameStyle(row) == Upper(Strip(row.StyleNo)) = Upper(Strip(style_number))

\* Tracking keys (style upper-cased, po, colour) of the plan rows of the style.
PlanKeysOfStyle ==
    {ComboKey(result_list[i]) : i \in {j \in 1..Len(result_list) : SameStyle(result_list[j])}}

ActualKeysOfStyle ==
    {ComboKey(daily_prod_daywise[i]) :
        i \in {j \in 1..Len(daily_prod_daywise) : SameStyle(daily_prod_daywise[j])}}

MatchedKeys == {ComboKey(matched_rows[i]) : i \in 1..Len(matched_rows)}

\* C2: the keys (style, po, colour) of the matched rows are exactly the keys of
\* the plan rows of the style; a key that occurs only in the actual rows never
\* appears in the output.
C2_MatchedKeysArePlanKeys ==
    pc = "prune" \/ (pc = "style_skipped" /\ matched_rows = <<>>) =>
        /\ MatchedKeys = PlanKeysOfStyle
        /\ \A k \in ActualKeysOfStyle \ PlanKeysOfStyle : k \notin MatchedKeys

\* The matcher returned rows while an actual row of the style had a key that
\* is not planned, and a plan row wrote the style in another case.
C2_Witness ==
    /\ pc = "prune"
    /\ ActualKeysOfStyle \ PlanKeysOfStyle # {}
    /\ ActualKeysOfStyle \cap PlanKeysOfStyle # {}
    /\ \E i \in 1..Len(result_list) :
          SameStyle(result_list[i]) /\ result_list[i].StyleNo # style_number

\* The actual rows of the style whose (po, colour) is not a plan key.
UnplannedActual ==
    {i \in 1..Len(daily_prod_daywise) :
        /\ SameStyle(daily_prod_daywise[i])
        /\ <<Upper(Strip(style_number)), daily_prod_daywise[i].PO,
             daily_prod_daywise[i].Colour>> \notin PlanKeysOfStyle}

DiagnosticsFor(row) ==
    {k \in 1..Len(unplanned_rows) :
        /\ unplanned_rows[k].po = row.PO
        /\ unplanned_rows[k].colour = row.Colour
        /\ unplanned_rows[k].date = row.Date}

PlannedPos == {k[2] : k \in PlanKeysOfStyle}

PlannedColoursOf(po) == {k[3] : k \in {x \in PlanKeysOfStyle : x[2] = po}}

\* C8: every actual (po, colour, date) of the style whose (po, colour) is not a
\* plan key yields exactly one diagnostic; it says 'unknown purchase order' iff
\* the po is in no plan row of the style, and otherwise 'unlisted colour' with
\* exactly the colours planned for that po; no matched row carries that key.
C8_MismatchClassified ==
    pc = "prune" \/ (pc = "style_skipped" /\ matched_rows = <<>>) =>
        \A i \in UnplannedActual :
            LET row == daily_prod_daywise[i]
                ds  == DiagnosticsFor(row)
            IN  /\ Cardinality(ds) = 1
                /\ \A k \in ds :
                      /\ unplanned_rows[k].error.kind = "unknown_po"
                            <=> row.PO \notin PlannedPos
                      /\ row.PO \in PlannedPos =>
                            /\ unplanned_rows[k].error.kind = "unlisted_colour"
                            /\ unplanned_rows[k].error.available = PlannedColoursOf(row.PO)
                /\ \A m \in 1..Len(matched_rows) :
                      <<matched_rows[m].PO, matched_rows[m].Colour>> # <<row.PO, row.Colour>>

\* Both kinds of mismatch were reported in one run, the unlisted colour for a
\* purchase order planned in one colour while the plan holds another order too.
C8_Witness ==
    /\ pc = "prune"
    /\ \E a, b \in 1..Len(unplanned_rows) :
          /\ unplanned_rows[a].error.kind = "unknown_po"
          /\ unplanned_rows[b].error.kind = "unlisted_colour"
          /\ unplanned_rows[b].error.available = {"red"}
    /\ Cardinality(PlannedPos) = 2

----------------------------------------------------------------------------
(* Aggregator: the cumulative variance (C4) *)

\* C4: on every output row and in every stage the cumulative variance equals
\* the cumulative actual minus the cumulative planned.
C4_CumulativeVariance ==
    \A i \in 1..Len(report_rows) : \A s \in Stages :
        report_rows[i].CumDiff[s] = report_rows[i].CumActual[s] - report_rows[i].CumPlanned[s]

\* The aggregator produced a second-date row of a group whose running totals
\* differ from the day's own quantities and whose cumulative variance is not zero.
C4_Witness ==
    /\ pc = "write"
    /\ \E i \in 1..Len(report_rows) :
          /\ report_rows[i].CumPlanned # report_rows[i].Planned
          /\ report_rows[i].CumActual # report_rows[i].Actual
          /\ report_rows[i].CumDiff["Cutting"] < 0
          /\ report_rows[i].CumDiff["Sewing"] < 0

----------------------------------------------------------------------------
(* SpecPlan: the plan normalizer, row by row, on every plan sheet of up to *)
(* MaxSheetRows rows.                                                      *)

MaxSheetRows == 3

PlanCells(cutting) == [s \in Stages |-> IF s = "Cutting" THEN cutting ELSE BlankQty]

SheetRow(date, cutting) ==
    [style |-> "A1", po |-> "100", colour |-> "red", date |-> date,
     qty |-> PlanCells(cutting)]

BlankSheetRow ==
    [style |-> "NaN", po |-> "NaN", colour |-> "NaN", date |-> BlankDate,
     qty |-> PlanCells(BlankQty)]

PlanSheetDates ==
    {BlankDate, BadDate, DateCell(202, 9, 16), DateCell(2016, 2, 29),
     DateCell(2010, 5, 1), DateCell(2024, 12, 31), DateCell(2025, 1, 14),
     DateCell(2025, 1, 15), DateCell(2025, 9, 17), DateCell(2025, 9, 18)}

PlanSheetRowSet ==
    {BlankSheetRow} \cup {SheetRow(date, Num(500)) : date \in PlanSheetDates}

InitPlan ==
    /\ pc = "sheet"
    /\ style_number = "A1"
    /\ plan_sheet \in SeqsUpTo(PlanSheetRowSet, MaxSheetRows)
    /\ index = 0
    /\ parsed_dates = <<>>
    /\ result_list = <<>>
    /\ skipped_rows = <<>>
    /\ year_cautions = <<>>
    /\ year_fixes = <<>>
    /\ raw_actual = <<>>
    /\ daily_prod_data = <<>>
    /\ daily_prod_daywise = <<>>
    /\ clamp_warnings = <<>>
    /\ matched_rows = <<>>
    /\ unplanned_rows = <<>>
    /\ report_rows = <<>>
    /\ output_file = <<>>
    /\ SingleStyle

NextPlan == PlanRow \/ PlanReturn

SpecPlan == InitPlan /\ [][NextPlan]_vars

----------------------------------------------------------------------------
(* Plan normalizer: year correction (C9) and chronology caution (C10) *)

\* Positions in parsed_dates of the rows accepted before df index i.
AcceptedBefore(i) == {k \in 1..Len(parsed_dates) : parsed_dates[k].index < i}

AcceptedAt(i) == {k \in 1..Len(parsed_dates) : parsed_dates[k].index = i}

\* The year of the most recently accepted row before df index i, 0 if none.
AboveYear(i) ==
    IF AcceptedBefore(i) = {} THEN 0
    ELSE parsed_dates[MaxOf(AcceptedBefore(i))].date.year

\* The year of the df row after index i, 0 when there is no such row, it does
\* not parse, or its year is not between 2000 and 2100.
BelowYear(i) ==
    IF i + 2 > Len(plan_sheet) THEN 0
    ELSE LET next == plan_sheet[i + 2].date
         IN  IF next.kind = "date" /\ next.year \in 2000..2100 THEN next.year ELSE 0

\* The year the heuristic is said to adopt, 0 when the row is to be dropped.
AdoptedYear(i) ==
    LET above == AboveYear(i)
        below == BelowYear(i)
    IN  IF above # 0 /\ below # 0 THEN (IF above = below THEN above ELSE 0)
        ELSE IF above # 0 THEN above
        ELSE below

\* The processed df rows whose date parsed to a year outside 2020..2050.
OutsideWindow ==
    {i \in 0..(index - 1) :
        /\ plan_sheet[i + 1].date.kind = "date"
        /\ plan_sheet[i + 1].date.year \notin 2020..2050
        /\ plan_sheet[i + 1].style # "NaN"}

\* The outcome the heuristic is said to have for the df row at index i.
RepairedAsStated(i) ==
    LET cell == plan_sheet[i + 1].date
        year == AdoptedYear(i)
    IN  IF year # 0
        THEN /\ (i + 2) \notin {skipped_rows[k] : k \in 1..Len(skipped_rows)}
             /\ \E k \in AcceptedAt(i) :
                   parsed_dates[k].date = [year |-> year, month |-> cell.month, day |-> cell.day]
             /\ \E k \in 1..Len(result_list) :
                   /\ result_list[k].SourceRow = i + 2
                   /\ result_list[k].Date = D(cell.day, cell.month, year % 100)
        ELSE /\ (i + 2) \in {skipped_rows[k] : k \in 1..Len(skipped_rows)}
             /\ AcceptedAt(i) = {}

SeptemberSheet ==
    /\ Len(plan_sheet) = 3
    /\ plan_sheet[1].date = DateCell(202, 9, 16)
    /\ plan_sheet[2].date = DateCell(2025, 9, 17)
    /\ plan_sheet[3].date = DateCell(2025, 9, 18)

\* C9: a row whose parsed year is outside 2020..2050 is accepted with the
\* common year when the most recently accepted row's year and the next row's
\* year are both available and equal, with the one available year when exactly
\* one is available, and is dropped otherwise; a repair keeps day and month.
\* Rows dated 16/Sep/0202, 17/Sep/2025, 18/Sep/2025: the first is accepted with 2025.
C9_RepairByNeighbours ==
    /\ \A i \in OutsideWindow : RepairedAsStated(i)
    /\ SeptemberSheet /\ index >= 1 =>
          /\ Len(parsed_dates) >= 1
          /\ parsed_dates[1] = [index |-> 0, date |-> [year |-> 2025, month |-> 9, day |-> 16]]

\* The same for the rows whose day and month exist in the adopted year.
C9_RepairWhenDateExists ==
    /\ \A i \in OutsideWindow :
          LET cell == plan_sheet[i + 1].date
          IN  (AdoptedYear(i) # 0 => cell.day <= DaysInMonth(AdoptedYear(i), cell.month))
                 => RepairedAsStated(i)
    /\ SeptemberSheet /\ index >= 1 =>
          /\ Len(parsed_dates) >= 1
          /\ parsed_dates[1] = [index |-> 0, date |-> [year |-> 2025, month |-> 9, day |-> 16]]

CautionsFor(i) == {k \in 1..Len(year_cautions) : year_cautions[k].row = i + 2}

\* C10: an accepted row gets a caution iff its year (after repair) is lower
\* than the preceding accepted row's year, or higher while its date is not
\* within 1-14 January; a cautioned row is not dropped and keeps its date and
\* its quantities.
C10_ChronologyCaution ==
    \A k \in 1..Len(parsed_dates) :
        LET cur == parsed_dates[k]
            row == plan_sheet[cur.index + 1]
            unusual ==
                /\ k > 1
                /\ \/ cur.date.year < parsed_dates[k - 1].date.year
                   \/ /\ cur.date.year > parsed_dates[k - 1].date.year
                      /\ ~(cur.date.month = 1 /\ cur.date.day \in 1..14)
        IN  /\ Cardinality(CautionsFor(cur.index)) = (IF unusual THEN 1 ELSE 0)
            /\ (cur.index + 2) \notin {skipped_rows[j] : j \in 1..Len(skipped_rows)}
            /\ cur.date.month = row.date.month /\ cur.date.day = row.date.day
            /\ row.date.year \in 2020..2050 => cur.date.year = row.date.year
            /\ \E j \in 1..Len(result_list) :
                  /\ result_list[j].SourceRow = cur.index + 2
                  /\ result_list[j].Date = D(cur.date.day, cur.date.month, cur.date.year % 100)
                  /\ result_list[j].Planned = Qty2(50, 0)

\* A sheet of three accepted rows: a rollover on 14 January without caution,
\* then a decrease with its caution; nothing was dropped.
C10_Witness ==
    /\ pc = "returned"
    /\ Len(parsed_dates) = 3
    /\ parsed_dates[2].date = [year |-> 2025, month |-> 1, day |-> 14]
    /\ parsed_dates[1].date.year = 2024
    /\ Len(year_cautions) = 1
    /\ year_cautions[1].row = 4
    /\ year_cautions[1].kind = "decrease"
    /\ Len(result_list) = 3
    /\ skipped_rows = <<>>

----------------------------------------------------------------------------
(* Spec: do_everything for one style, from the raw workbook rows to the    *)
(* written sheet, on every pair of a daily production workbook of up to    *)
(* MaxRawActual rows and a plan sheet of up to MaxRawPlan rows.            *)

MaxRawActual == 2

MaxRawPlan == 2

ActualRaw(sheet, po, style, colour, cutting) ==
    [sheet |-> DailySheetName(sheet, "dd-Mon-yyyy"), columns |-> TRUE,
     po |-> po, style |-> style, colour |-> colour,
     oq |-> Num(1000), qty |-> PlanCells(cutting)]

PlanRaw(po, colour, date, cutting) ==
    [style |-> "A1", po |-> po, colour |-> colour, date |-> date,
     qty |-> PlanCells(cutting)]

RawActualRowSet ==
    {ActualRaw(DateCell(2025, 1, 1), "100", "PID-A1", "red", Num(300)),
     ActualRaw(DateCell(2025, 1, 1), "100", "PID-A1", "Red", Num(-50)),
     [ActualRaw(DateCell(2025, 1, 1), "100", "PID-A1", "red", Num(25))
         EXCEPT !.sheet.writing = "d Mon yyyy"],
     ActualRaw(DateCell(2025, 1, 2), "100", "PID-A1", "red", Num(550)),
     [ActualRaw(DateCell(2025, 1, 2), "100", "PID-A1", "red", Num(300))
         EXCEPT !.oq = BlankQty],
     [ActualRaw(DateCell(2025, 1, 2), "100", "PID-A1", "red", Num(100))
         EXCEPT !.oq = Num(2000)],
     ActualRaw(DateCell(2025, 1, 2), "999", "PID-A1", "blue", Num(300)),
     ActualRaw(BadDate, "100", "PID-A1", "red", Num(300)),
     [ActualRaw(DateCell(2025, 1, 2), "100", "PID-A1", "red", Num(300))
         EXCEPT !.sheet.writing = "dd/mm/yyyy", !.columns = FALSE],
     ActualRaw(DateCell(2025, 1, 1), "NaN", "NaN", "NaN", BlankQty)}

RawPlanRowSet ==
    {PlanRaw("100", "red", DateCell(2025, 1, 1), Num(500)),
     PlanRaw("100", "red", DateCell(2025, 1, 1), Num(-300)),
     PlanRaw("100", "red", DateCell(2025, 1, 1), BlankQty),
     PlanRaw("100", "red", DateCell(2025, 1, 2), Num(-300)),
     PlanRaw("100", "red", DateCell(2025, 1, 2), Num(25)),
     PlanRaw("999", "blue", DateCell(2025, 1, 2), TextQty),
     PlanRaw("100", "red", BlankDate, Num(500))}

Init ==
    /\ pc = "start"
    /\ style_number = "A1"
    /\ plan_sheet \in SeqsUpTo(RawPlanRowSet, MaxRawPlan)
    /\ index = 0
    /\ parsed_dates = <<>>
    /\ result_list = <<>>
    /\ skipped_rows = <<>>
    /\ year_cautions = <<>>
    /\ year_fixes = <<>>
    /\ raw_actual \in {raw \in SeqsUpTo(RawActualRowSet, MaxRawActual) : SheetsRowByRow(raw)}
    /\ daily_prod_data = <<>>
    /\ daily_prod_daywise = <<>>
    /\ clamp_warnings = <<>>
    /\ matched_rows = <<>>
    /\ unplanned_rows = <<>>
    /\ report_rows = <<>>
    /\ output_file = <<>>
    /\ SingleStyle

Next ==
    \/ ExtractActual
    \/ Convert
    \/ ExtractPlan
    \/ Match
    \/ Prune
    \/ Aggregate
    \/ Write

Spec == Init /\ [][Next]_vars

----------------------------------------------------------------------------
(* Pipeline: accepted rows (C6), pruner (C3), running totals (C5) and the  *)
(* round trip (C7)                                                         *)

NonZeroField(row) == \E s \in Stages : row.Planned[s] # 0 \/ row.Actual[s] # 0

\* C3: a matched row the pipeline hands to the pruner is in the pruner's
\* output iff at least one of its ten quantity fields is non-zero.
C3_KeptIffNonZero ==
    [][Prune =>
          \A i \in 1..Len(matched_rows) :
              (\E j \in 1..Len(matched_rows') : matched_rows'[j] = matched_rows[i])
                  <=> NonZeroField(matched_rows[i])]_vars

DateBefore(a, b) == Ordinal(Strptime(a)) < Ordinal(Strptime(b))

\* C5: in the aggregated output the cumulative planned and the cumulative
\* actual totals of a tracking key never decrease from a date to a later date.
C5_CumulativeMonotone ==
    \A i, j \in 1..Len(report_rows) :
        (ComboKey(report_rows[i]) = ComboKey(report_rows[j])
            /\ DateBefore(report_rows[i].Date, report_rows[j].Date)) =>
                \A s \in Stages :
                    /\ report_rows[i].CumPlanned[s] <= report_rows[j].CumPlanned[s]
                    /\ report_rows[i].CumActual[s] <= report_rows[j].CumActual[s]

\* C6: every row accepted by the plan normalizer and by the actual normalizer
\* carries a valid calendar date and five non-negative integer quantities.
C6_AcceptedRowsValid ==
    /\ \A i \in 1..Len(result_list) :
          /\ ValidDate(Strptime(result_list[i].Date))
          /\ \A s \in Stages : result_list[i].Planned[s] \in Nat
    /\ \A i \in 1..Len(daily_prod_data) :
          /\ ValidDate(Strptime(daily_prod_data[i].Date))
          /\ \A s \in Stages : daily_prod_data[i].Actual[s] \in Nat

\* The actual rows of key k are regular: at most one per date, and the
\* reported cumulative values do not decrease with the date.
RegularActual(data, k) ==
    LET A == {i \in 1..Len(data) : ComboKey(data[i]) = k}
    IN  /\ \A a, b \in A : a # b => data[a].Date # data[b].Date
        /\ \A a, b \in A : DateBefore(data[a].Date, data[b].Date) =>
              \A s \in Stages : data[a].Actual[s] <= data[b].Actual[s]

\* The round trip for key k: cumulative actual equals the reported value,
\* cumulative planned is carried over a date without plan entry, and the
\* cumulative variance is their difference.
RoundTripOf(data, plan, out, k) ==
    LET A == {i \in 1..Len(data) : ComboKey(data[i]) = k}
        R == {j \in 1..Len(out) : ComboKey(out[j]) = k}
        plan_dates == {plan[i].Date : i \in {n \in 1..Len(plan) : ComboKey(plan[n]) = k}}
    IN  /\ \A a \in A : \A j \in R :
              out[j].Date = data[a].Date => out[j].CumActual = data[a].Actual
        /\ \A j \in R : \A e \in R :
              (/\ out[j].Date \notin plan_dates
               /\ DateBefore(out[e].Date, out[j].Date)
               /\ \A m \in R : ~(DateBefore(out[e].Date, out[m].Date)
                                    /\ DateBefore(out[m].Date, out[j].Date)))
                  => out[j].CumPlanned = out[e].CumPlanned
        /\ \A j \in R : \A s \in Stages :
              out[j].CumDiff[s] = out[j].CumActual[s] - out[j].CumPlanned[s]

\* Plan cutting 50 on day 1, cumulative actual cutting 30 then 55.
FiftyThirtyExample ==
    /\ plan_sheet = <<PlanRaw("100", "red", DateCell(2025, 1, 1), Num(500))>>
    /\ raw_actual = <<ActualRaw(DateCell(2025, 1, 1), "100", "PID-A1", "red", Num(300)),
                      ActualRaw(DateCell(2025, 1, 2), "100", "PID-A1", "red", Num(550))>>

FiftyThirtyReport ==
    /\ Len(report_rows) = 2
    /\ report_rows[1].Date = D(1, 1, 25) /\ report_rows[2].Date = D(2, 1, 25)
    /\ report_rows[1].Actual = Qty2(30, 0) /\ report_rows[2].Actual = Qty2(25, 0)
    /\ report_rows[1].CumPlanned = Qty2(50, 0) /\ report_rows[2].CumPlanned = Qty2(50, 0)
    /\ report_rows[1].CumActual = Qty2(30, 0) /\ report_rows[2].CumActual = Qty2(55, 0)
    /\ report_rows[1].CumDiff = Qty2(-20, 0) /\ report_rows[2].CumDiff = Qty2(5, 0)

RoundTrip ==
    pc \in {"write", "done"} =>
        LET data == daily_prod_data
            plan == result_list
            out  == report_rows
        IN  /\ \A k \in {ComboKey(plan[i]) : i \in 1..Len(plan)} :
                  RegularActual(data, k) => RoundTripOf(data, plan, out, k)
            /\ FiftyThirtyExample => FiftyThirtyReport

\* C7: for a planned key whose actual rows are regular, the aggregated
\* cumulative actual on a date with an actual report equals the reported
\* cumulative value, the cumulative planned is constant across dates without
\* plan entry, and the variance is their difference; the 50 / 30, 55 example.
C7_RoundTrip == RoundTrip

NonNegativePlan ==
    \A i \in 1..Len(result_list) : \A s \in Stages : result_list[i].Planned[s] >= 0

\* The round trip on the runs whose plan rows carry no negative quantity.
RoundTripNonNegativePlan == NonNegativePlan => RoundTrip

\* The pruner on the runs whose plan rows carry no negative quantity.
KeptIffNonZeroNonNegativePlan ==
    [][Prune /\ NonNegativePlan =>
          \A i \in 1..Len(matched_rows) :
              (\E j \in 1..Len(matched_rows') : matched_rows'[j] = matched_rows[i])
                  <=> NonZeroField(matched_rows[i])]_vars

\* The running totals on the runs whose plan rows carry no negative quantity.
CumulativeMonotoneNonNegativePlan == NonNegativePlan => C5_CumulativeMonotone

----------------------------------------------------------------------------
(* The style loop of do_everything and the workbook writer.  A sheet of    *)
(* the plan workbook is [name, readable, rows]: readable says whether      *)
(* reading its column A under the header 'Style #' succeeds.               *)

\* get_style_numbers_from_plan: the sheets whose first column can be read
GetStyleNumbersFromPlan(book) ==
    LET valid == SelectSeq(book, LAMBDA sheet : sheet.readable)
    IN  [i \in 1..Len(valid) |-> valid[i].name]

\* A style's rows read from the first sheet of the workbook, whatever its name.
FirstSheetRows(book, style) == book[1].rows

\* pd.read_excel(file_path, sheet_name=style_number): the rows of the style's sheet
SheetRowsOf(book, style) ==
    LET hits == {i \in 1..Len(book) : book[i].name = style}
    IN  IF hits = {} THEN <<>> ELSE book[CHOOSE i \in hits : TRUE].rows

\* str(style_number)[:31]
SheetName(style) ==
    CASE style = "STYLE-0123456789-0123456789-0123" -> "STYLE-0123456789-0123456789-012"
      [] OTHER -> style

\* write_production_report_to_excel: one sheet per stored style that has rows
RECURSIVE WrittenSheets(_, _)
WrittenSheets(by_style, i) ==
    IF i > Len(by_style) THEN <<>>
    ELSE IF Len(by_style[i].rows) = 0 THEN WrittenSheets(by_style, i + 1)
    ELSE <<[name |-> SheetName(by_style[i].style), rows |-> SheetRows(by_style[i].rows)]>>
             \o WrittenSheets(by_style, i + 1)

\* Step 1 going on to Step 2 even when style_numbers is empty.
GetStyleNumbersNoAbort ==
    /\ pc = "begin"
    /\ style_numbers' = GetStyleNumbersFromPlan(plan_book)
    /\ style_index' = 1
    /\ pc' = "start"
    /\ UNCHANGED <<style_number, plan_sheet, index, parsed_dates, result_list,
                   skipped_rows, year_cautions,
                   year_fixes, raw_actual, daily_prod_data, daily_prod_daywise,
                   clamp_warnings, matched_rows, unplanned_rows, report_rows,
                   output_file, plan_book, matched_data_by_style, disk_file, clicks,
                   app_status>>

\* do_everything, Step 1: style_numbers; the loop variable is bound to the
\* first style as soon as the list is known
GetStyleNumbers ==
    /\ pc = "begin"
    /\ style_numbers' = GetStyleNumbersFromPlan(plan_book)
    /\ style_index' = 1
    /\ style_number' = IF style_numbers' = <<>> THEN style_number ELSE style_numbers'[1]
    /\ plan_sheet' = IF style_numbers' = <<>> THEN plan_sheet
                     ELSE SheetRowsOf(plan_book, style_numbers'[1])
    /\ pc' = IF style_numbers' = <<>> THEN "aborted" ELSE "start"
    /\ UNCHANGED <<index, parsed_dates, result_list, skipped_rows, year_cautions,
                   year_fixes, raw_actual, daily_prod_data, daily_prod_daywise,
                   clamp_warnings, matched_rows, unplanned_rows, report_rows,
                   output_file, plan_book, matched_data_by_style, disk_file, clicks,
                   app_status>>

\* A loop that runs the style at hand once more instead of moving on.
AdvanceLoopSameStyle ==
    /\ pc' = "plan"
    /\ UNCHANGED <<style_index, style_number, plan_sheet>>

\* for style_number in style_numbers: the next iteration, or the end of the loop
AdvanceLoop ==
    IF style_index < Len(style_numbers)
    THEN /\ style_index' = style_index + 1
         /\ style_number' = style_numbers[style_index + 1]
         /\ plan_sheet' = SheetRowsOf(plan_book, style_numbers[style_index + 1])
         /\ pc' = "plan"
    ELSE /\ pc' = "loop_done"
         /\ UNCHANGED <<style_index, style_number, plan_sheet>>

\* matched_data_by_style[style_number] = matched_rows
StoreStyle ==
    /\ pc = "write"
    /\ matched_data_by_style' =
          Append(matched_data_by_style, [style |-> style_number, rows |-> report_rows])
    /\ AdvanceLoop
    /\ UNCHANGED <<index, parsed_dates, result_list, skipped_rows, year_cautions,
                   year_fixes, raw_actual, daily_prod_data, daily_prod_daywise,
                   clamp_warnings, matched_rows, unplanned_rows, report_rows,
                   output_file, plan_book, style_numbers, disk_file, clicks,
                   app_status>>

\* continue: the style is left out of matched_data_by_style
SkipStyle ==
    /\ pc = "style_skipped"
    /\ AdvanceLoop
    /\ UNCHANGED <<index, parsed_dates, result_list, skipped_rows, year_cautions,
                   year_fixes, raw_actual, daily_prod_data, daily_prod_daywise,
                   clamp_warnings, matched_rows, unplanned_rows, report_rows,
                   output_file, plan_book, style_numbers, matched_data_by_style,
                   disk_file, clicks, app_status>>

\* "No matched data for any style": return without writing
NoMatchedData ==
    /\ pc = "loop_done"
    /\ matched_data_by_style = <<>>
    /\ pc' = "aborted"
    /\ UNCHANGED <<style_number, plan_sheet, index, parsed_dates, result_list,
                   skipped_rows, year_cautions, year_fixes, raw_actual,
                   daily_prod_data, daily_prod_daywise, clamp_warnings, matched_rows,
                   unplanned_rows, report_rows, output_file>>
    /\ UNCHANGED run_vars

\* do_everything, Step 5: write_production_report_to_excel(matched_data_by_style, path)
WriteBook ==
    /\ pc = "loop_done"
    /\ matched_data_by_style # <<>>
    /\ disk_file' = [exists |-> TRUE, sheets |-> WrittenSheets(matched_data_by_style, 1),
                     written_by |-> clicks]
    /\ pc' = "done"
    /\ UNCHANGED <<style_number, plan_sheet, index, parsed_dates, result_list,
                   skipped_rows, year_cautions, year_fixes, raw_actual,
                   daily_prod_data, daily_prod_daywise, clamp_warnings, matched_rows,
                   unplanned_rows, report_rows, output_file, plan_book, style_numbers,
                   style_index, matched_data_by_style, clicks, app_status>>

----------------------------------------------------------------------------
(* SpecRun: one call of do_everything on every plan workbook of up to      *)
(* MaxBookSheets sheets and every daily production workbook of up to       *)
(* MaxRunActual rows.                                                      *)

MaxBookSheets == 2

MaxRunActual == 2

RunPlanRow(style, date, cutting) ==
    [style |-> style, po |-> "100", colour |-> "red", date |-> date,
     qty |-> PlanCells(cutting)]

\* The row lists a sheet named name can hold: none, a planned row, a row
\* planned at zero, a row without date, a row written for the other style.
RunSheetRowLists(name) ==
    {<<>>,
     <<RunPlanRow(name, DateCell(2025, 1, 1), Num(500))>>,
     <<RunPlanRow(name, DateCell(2025, 1, 1), BlankQty)>>,
     <<RunPlanRow(name, BlankDate, Num(500))>>,
     <<RunPlanRow(IF name = "A1" THEN "B2" ELSE "A1", DateCell(2025, 1, 1), Num(500))>>}

RunSheetSet ==
    UNION {{[name |-> name, readable |-> TRUE, rows |-> rows] :
                rows \in RunSheetRowLists(name)}
             \cup {[name |-> name, readable |-> FALSE, rows |-> <<>>]} :
           name \in {"A1", "B2"}}

\* Sheet names are unique inside a workbook.
RunBooks ==
    {book \in SeqsUpTo(RunSheetSet, MaxBookSheets) :
        \A i, j \in 1..Len(book) : i # j => book[i].name # book[j].name}

RunActualRowSet ==
    {ActualRaw(DateCell(2025, 1, 1), "100", "PID-A1", "red", Num(300)),
     [ActualRaw(DateCell(2025, 1, 2), "100", "X-PID-A1", "red", Num(550))
         EXCEPT !.oq = Num(2000)],
     ActualRaw(DateCell(2025, 1, 1), "100", "PID-B2", "red", Num(300)),
     ActualRaw(BadDate, "100", "PID-A1", "red", Num(300))}

InitRun ==
    /\ pc = "begin"
    /\ style_number = ""
    /\ plan_sheet = <<>>
    /\ index = 0
    /\ parsed_dates = <<>>
    /\ result_list = <<>>
    /\ skipped_rows = <<>>
    /\ year_cautions = <<>>
    /\ year_fixes = <<>>
    /\ raw_actual \in {raw \in SeqsUpTo(RunActualRowSet, MaxRunActual) : SheetsRowByRow(raw)}
    /\ daily_prod_data = <<>>
    /\ daily_prod_daywise = <<>>
    /\ clamp_warnings = <<>>
    /\ matched_rows = <<>>
    /\ unplanned_rows = <<>>
    /\ report_rows = <<>>
    /\ output_file = <<>>
    /\ plan_book \in RunBooks
    /\ style_numbers = <<>>
    /\ style_index = 0
    /\ matched_data_by_style = <<>>
    /\ disk_file = NoFile
    /\ clicks = 0
    /\ app_status = NothingShown

NextRun ==
    \/ GetStyleNumbers
    \/ ExtractActual
    \/ Convert
    \/ ExtractPlan
    \/ Match
    \/ Prune
    \/ Aggregate
    \/ StoreStyle
    \/ SkipStyle
    \/ NoMatchedData
    \/ WriteBook

SpecRun == InitRun /\ [][NextRun]_vars

----------------------------------------------------------------------------
(* Run-fatal abort (C11) *)

\* No sheet of the plan workbook is a valid style sheet.
NoValidStyle == \A i \in 1..Len(plan_book) : ~plan_book[i].readable

\* No row of the daily production workbook is extracted.
NoActualRow ==
    \A i \in 1..Len(raw_actual) :
        \/ raw_actual[i].sheet.kind # "date"
        \/ ~raw_actual[i].columns
        \/ (raw_actual[i].po = "NaN" /\ raw_actual[i].style = "NaN"
               /\ raw_actual[i].colour = "NaN")

\* C11: when the plan holds no valid style sheet, or no actual-production row
\* is extracted, do_everything stops before the style loop: the workbook
\* writer is never invoked and the run produces no output file.
C11_FatalRunWritesNothing ==
    (NoValidStyle \/ NoActualRow) =>
        /\ pc \in {"begin", "start", "aborted"}
        /\ matched_data_by_style = <<>>
        /\ disk_file = NoFile

\* A run with a valid style sheet and a daily production workbook with rows,
\* none of them extracted, has ended without a file.
C11_Witness ==
    /\ pc = "aborted"
    /\ style_numbers # <<>>
    /\ raw_actual # <<>>
    /\ NoActualRow
    /\ disk_file = NoFile

----------------------------------------------------------------------------
(* Style-fatal recovery (C12) *)

\* The rows do_everything stores for a style whose sheet holds sheet_rows,
\* computed from that sheet and the actual rows alone; <<>> when the style
\* fails at the plan extraction, the matcher, the pruner or the aggregator.
ReportOfStyleAlone(sheet_rows, style, daywise, data) ==
    LET plan    == PlanLoop(sheet_rows, 0, style, PlanStart).result
        matched == MatchPlanWithActual(plan, daywise, style)
        pruned  == DeleteEmptyRows(matched)
    IN  IF plan = <<>> \/ matched = <<>> \/ pruned = <<>> THEN <<>>
        ELSE StampOrderQuantity(AddCumulativeColumns(pruned), data)

SheetNamed(book, style) == book[CHOOSE i \in 1..Len(book) : book[i].name = style].rows

\* C12: after the style loop a style that failed is absent from the mapping
\* handed to the writer, and every stored style carries exactly the rows it
\* gets from its own sheet alone, whatever other styles the plan holds.
C12_FailingStyleOmitted ==
    pc \in {"loop_done", "done"} =>
        LET daywise == daily_prod_daywise
            data    == daily_prod_data
            alone   == [i \in 1..Len(style_numbers) |->
                           ReportOfStyleAlone(SheetNamed(plan_book, style_numbers[i]),
                                              style_numbers[i], daywise, data)]
            kept    == {i \in 1..Len(style_numbers) : alone[i] # <<>>}
        IN  /\ Len(matched_data_by_style) = Cardinality(kept)
            /\ \A i \in 1..Len(style_numbers) :
                  i \notin kept =>
                      \A k \in 1..Len(matched_data_by_style) :
                          matched_data_by_style[k].style # style_numbers[i]
            /\ \A i \in kept :
                  \E k \in 1..Len(matched_data_by_style) :
                      /\ matched_data_by_style[k].style = style_numbers[i]
                      /\ matched_data_by_style[k].rows = alone[i]

\* Two valid styles: the first had plan rows but ended with none (left out),
\* the second was stored and written.
C12_Witness ==
    /\ pc = "done"
    /\ Len(style_numbers) = 2
    /\ Len(matched_data_by_style) = 1
    /\ matched_data_by_style[1].style = style_numbers[2]
    /\ SheetNamed(plan_book, style_numbers[1]) # <<>>
    /\ PlanLoop(SheetNamed(plan_book, style_numbers[1]), 0, style_numbers[1],
                PlanStart).result # <<>>
    /\ Len(disk_file.sheets) = 1

----------------------------------------------------------------------------
(* Workbook writer: the order of a sheet's rows (C13) *)

\* C13 as stated: the rows of the style's sheet are written in exactly the
\* order in which the aggregator returned them; the writer does not reorder.
C13_WriterKeepsOrder == pc = "done" => output_file = report_rows

PositionIn(rows, row) == CHOOSE i \in 1..Len(rows) : rows[i] = row

\* C13 amended: the writer writes the rows it received, each once, in
\* ascending date order; rows of the same date keep the order in which the
\* aggregator returned them.
C13_WriterSortsByDate ==
    pc = "done" =>
        LET out == output_file
            got == report_rows
        IN  /\ Len(out) = Len(got)
            /\ {out[i] : i \in 1..Len(out)} = {got[i] : i \in 1..Len(got)}
            /\ \A i, j \in 1..Len(out) :
                  i < j =>
                      /\ ~DateBefore(out[j].Date, out[i].Date)
                      /\ out[i].Date = out[j].Date =>
                            PositionIn(got, out[i]) < PositionIn(got, out[j])

\* The aggregator returned a row of a later date before a row of an earlier
\* date (another key), and a sheet in another order was written.
C13_Witness ==
    /\ pc = "done"
    /\ output_file # report_rows
    /\ \E i, j \in 1..Len(report_rows) :
          i < j /\ DateBefore(report_rows[j].Date, report_rows[i].Date)

----------------------------------------------------------------------------
(* Plan normalizer: a dropped row is dropped alone (C14) *)

SkippedCount(i) == Cardinality({k \in 1..Len(skipped_rows) : skipped_rows[k] = i + 2})

ResultsFor(i) == {k \in 1..Len(result_list) : result_list[k].SourceRow = i + 2}

\* The processed rows that are not wholly blank.
ProcessedRows == {i \in 0..(index - 1) : plan_sheet[i + 1].style # "NaN"}

\* C14: a row with a blank date, an unparseable date or an unrepairable year
\* is dropped, once, and no other row is dropped on its account: every
\* processed row whose date parses with a year in 2020..2050 is accepted with
\* its own date and quantities, and the loop runs to the end of the sheet.
C14_DroppedRowIsolated ==
    /\ \A i \in ProcessedRows :
          LET cell == plan_sheet[i + 1].date
          IN  /\ (cell.kind # "date" \/ (i \in OutsideWindow /\ AdoptedYear(i) = 0)) =>
                    (SkippedCount(i) = 1 /\ ResultsFor(i) = {})
              /\ (cell.kind = "date" /\ cell.year \in 2020..2050) =>
                    /\ SkippedCount(i) = 0
                    /\ Cardinality(ResultsFor(i)) = 1
                    /\ \A k \in ResultsFor(i) :
                          /\ result_list[k].Date = D(cell.day, cell.month, cell.year % 100)
                          /\ result_list[k].Planned = Qty2(50, 0)
    /\ pc = "returned" => index = Len(plan_sheet)

\* A sheet of three rows: the second, with an unparseable date, was dropped;
\* the first and the third were accepted.
C14_Witness ==
    /\ pc = "returned"
    /\ Len(plan_sheet) = 3
    /\ plan_sheet[2].date = BadDate
    /\ skipped_rows = <<3>>
    /\ Len(result_list) = 2
    /\ result_list[2].SourceRow = 4

----------------------------------------------------------------------------
(* The app (src/app.py): the "Generate Report" handler.  Every click saves *)
(* the two uploads under fixed paths, calls do_everything with the fixed   *)
(* output path, and then looks whether a file exists at that path.         *)

MaxClicks == 2

AppBooks ==
    {<<[name |-> "A1", readable |-> TRUE,
        rows |-> <<RunPlanRow("A1", DateCell(2025, 1, 1), Num(500))>>]>>,
     <<[name |-> "A1", readable |-> TRUE,
        rows |-> <<RunPlanRow("A1", DateCell(2025, 1, 2), Num(200))>>]>>,
     <<[name |-> "A1", readable |-> TRUE,
        rows |-> <<RunPlanRow("A1", BlankDate, Num(500))>>]>>,
     <<[name |-> "A1", readable |-> FALSE, rows |-> <<>>]>>}

AppActuals ==
    {<<ActualRaw(DateCell(2025, 1, 1), "100", "PID-A1", "red", Num(300))>>,
     <<ActualRaw(BadDate, "100", "PID-A1", "red", Num(300))>>}

\* "Generate Report" is clicked: the uploads are saved and do_everything is
\* called; its locals are fresh, the file at the output path is left as it is.
Click ==
    /\ pc = "idle"
    /\ clicks < MaxClicks
    /\ clicks' = clicks + 1
    /\ plan_book' \in AppBooks
    /\ raw_actual' \in AppActuals
    /\ pc' = "begin"
    /\ style_number' = ""
    /\ plan_sheet' = <<>>
    /\ index' = 0
    /\ parsed_dates' = <<>>
    /\ result_list' = <<>>
    /\ skipped_rows' = <<>>
    /\ year_cautions' = <<>>
    /\ year_fixes' = <<>>
    /\ daily_prod_data' = <<>>
    /\ daily_prod_daywise' = <<>>
    /\ clamp_warnings' = <<>>
    /\ matched_rows' = <<>>
    /\ unplanned_rows' = <<>>
    /\ report_rows' = <<>>
    /\ style_numbers' = <<>>
    /\ style_index' = 0
    /\ matched_data_by_style' = <<>>
    /\ app_status' = NothingShown
    /\ UNCHANGED <<output_file, disk_file>>

\* do_everything has returned: if os.path.exists(output_path) the app shows
\* success and offers the file for download, else it shows the failure.
ShowResult ==
    /\ pc \in {"done", "aborted"}
    /\ app_status' = IF disk_file.exists
                     THEN [shown |-> "success", download |-> disk_file]
                     ELSE [shown |-> "failed", download |-> NoFile]
    /\ pc' = "idle"
    /\ UNCHANGED <<style_number, plan_sheet, index, parsed_dates, result_list,
                   skipped_rows, year_cautions, year_fixes, raw_actual,
                   daily_prod_data, daily_prod_daywise, clamp_warnings, matched_rows,
                   unplanned_rows, report_rows, output_file, plan_book, style_numbers,
                   style_index, matched_data_by_style, disk_file, clicks>>

InitApp ==
    /\ pc = "idle"
    /\ style_number = ""
    /\ plan_sheet = <<>>
    /\ index = 0
    /\ parsed_dates = <<>>
    /\ result_list = <<>>
    /\ skipped_rows = <<>>
    /\ year_cautions = <<>>
    /\ year_fixes = <<>>
    /\ raw_actual = <<>>
    /\ daily_prod_data = <<>>
    /\ daily_prod_daywise = <<>>
    /\ clamp_warnings = <<>>
    /\ matched_rows = <<>>
    /\ unplanned_rows = <<>>
    /\ report_rows = <<>>
    /\ output_file = <<>>
    /\ SingleStyle

NextApp ==
    \/ Click
    \/ GetStyleNumbers
    \/ ExtractActual
    \/ Convert
    \/ ExtractPlan
    \/ Match
    \/ Prune
    \/ Aggregate
    \/ StoreStyle
    \/ SkipStyle
    \/ NoMatchedData
    \/ WriteBook
    \/ ShowResult

SpecApp == InitApp /\ [][NextApp]_vars

\* C15: a run is shown as 'Report generated successfully' and offers a report
\* only if that same run wrote the output file; a run that aborted is shown as
\* failed and offers no report, whatever earlier runs left at the output path.
C15_SuccessOnlyIfRunWrote ==
    (pc = "idle" /\ clicks > 0) =>
        /\ app_status.shown = "success" =>
              (app_status.download.exists /\ app_status.download.written_by = clicks)
        /\ disk_file.written_by # clicks =>
              (app_status.shown = "failed" /\ app_status.download = NoFile)

----------------------------------------------------------------------------
(* Day-wise converter: the tracking dictionary after each row (C16).       *)

\* previous_quantities_by_combo after rows 1..i of the sorted input.
PreviousAfter(cin, i) ==
    ConvertLoop(SubSeq(cin, 1, i), 1,
                [previous |-> <<>>, result |-> <<>>, warnings |-> <<>>]).previous

\* Position i is a recovery: the key's previous row p was clamped in stage s
\* against the row before it, and row i reports at least what p reported.
RecoversAt(cin, i, s) ==
    LET p == PrevOfKey(cin, i)
    IN  /\ p # 0
        /\ StageDropped(cin, p, s)
        /\ cin[i].Actual[s] >= cin[p].Actual[s]

\* C16: after each row is processed the snapshot of its key holds that row's
\* date and its reported (un-clamped) cumulative quantities, whether or not a
\* stage of the row was clamped; so a row that follows a clamped row of its key
\* gets its delta against the dipped value of that row, not against the higher
\* value reported before the dip.
C16_SnapshotIsReportedRow ==
    Converted =>
        LET cin == DatedRows(daily_prod_data)
            out == daily_prod_daywise
        IN  \A i \in 1..Len(cin) :
              LET after == PreviousAfter(cin, i)
              IN  /\ ComboKey(cin[i]) \in DOMAIN after
                  /\ after[ComboKey(cin[i])].quantities = cin[i].Actual
                  /\ after[ComboKey(cin[i])].date = Strptime(cin[i].Date)
                  /\ \A s \in Stages :
                        RecoversAt(cin, i, s) =>
                            out[i].Actual[s] =
                                cin[i].Actual[s] - cin[PrevOfKey(cin, i)].Actual[s]

\* The key reported 10, 5, 8 pieces cut on three dates and 10, 0, 3 were emitted.
C16_Witness ==
    /\ Converted
    /\ LET cin == DatedRows(daily_prod_data)
           out == daily_prod_daywise
       IN  /\ Len(cin) = 3
           /\ \A i \in 1..3 : ComboKey(cin[i]) = <<"A1", "100", "red">>
           /\ <<cin[1].Actual["Cutting"], cin[2].Actual["Cutting"],
                cin[3].Actual["Cutting"]>> = <<10, 5, 8>>
           /\ <<out[1].Actual["Cutting"], out[2].Actual["Cutting"],
                out[3].Actual["Cutting"]>> = <<10, 0, 3>>
           /\ RecoversAt(cin, 3, "Cutting")
           /\ PreviousAfter(cin, 2)[<<"A1", "100", "red">>].quantities["Cutting"] = 5

----------------------------------------------------------------------------
(* Day-wise converter: the emitted deltas and the clamp diagnostics (C17). *)

\* Positions of the rows of which at least one stage fell below the key's
\* previous row.
ClampedPositions(cin) ==
    {i \in 1..Len(cin) : \E s \in Stages : StageDropped(cin, i, s)}

\* The k-th smallest member of a set of positions.
KthOf(S, k) == CHOOSE i \in S : Cardinality({j \in S : j < i}) = k - 1

\* C17: the first row of a tracking key in date order passes its five values
\* through; every later row carries, stage by stage, max(0, reported - previous
\* reported) of that stage alone; no emitted quantity is negative; and the clamp
\* diagnostics are, in processing order, exactly one for each row with a stage
\* below the key's previous row, naming the key, the row's date and the previous
\* row's date.
C17_DeltasClampedPerStage ==
    Converted =>
        LET cin == DatedRows(daily_prod_data)
            out == daily_prod_daywise
            clamped == ClampedPositions(cin)
        IN  /\ \A i \in 1..Len(cin) : \A s \in Stages :
                  LET p == PrevOfKey(cin, i)
                      raw == IF p = 0 THEN cin[i].Actual[s]
                             ELSE cin[i].Actual[s] - cin[p].Actual[s]
                  IN  /\ out[i].Actual[s] = IF p # 0 /\ raw < 0 THEN 0 ELSE raw
                      /\ out[i].Actual[s] >= 0
            /\ Len(clamp_warnings) = Cardinality(clamped)
            /\ \A k \in 1..Len(clamp_warnings) :
                  LET i == KthOf(clamped, k)
                  IN  /\ clamp_warnings[k].key = ComboKey(cin[i])
                      /\ clamp_warnings[k].current = cin[i].Date
                      /\ Strptime(clamp_warnings[k].previous) =
                             Strptime(cin[PrevOfKey(cin, i)].Date)

\* A later row of a key fell in cutting and rose in sewing: cutting was clamped
\* to 0, sewing kept its rise, and one diagnostic was emitted.
C17_Witness ==
    /\ Converted
    /\ Len(clamp_warnings) = 1
    /\ LET cin == DatedRows(daily_prod_data)
           out == daily_prod_daywise
       IN  \E i \in 1..Len(cin) :
             /\ StageDropped(cin, i, "Cutting")
             /\ out[i].Actual["Cutting"] = 0
             /\ out[i].Actual["Sewing"] = 5
             /\ cin[PrevOfKey(cin, i)].Date # cin[i].Date
             /\ \E j \in 1..Len(cin) : PrevOfKey(cin, j) = 0 /\ out[j].Actual = cin[j].Actual

----------------------------------------------------------------------------
(* Matcher: the rows built for each plan key (C18).                        *)

\* The last row of rows with the given (po, colour) and date, 0 when none.
LastRowAt(rows, combo, date) ==
    LET hits == {i \in 1..Len(rows) : PoColour(rows[i]) = combo /\ rows[i].Date = date}
    IN  IF hits = {} THEN 0 ELSE MaxOf(hits)

DatesAt(rows, combo) ==
    {rows[i].Date : i \in {j \in 1..Len(rows) : PoColour(rows[j]) = combo}}

MatchedCombo(row) == <<row.PO, row.Colour>>

\* C18: the matched rows of a style are, for every (po, colour) of its plan rows
\* and every date on which that key has a plan row or a day-wise actual row,
\* exactly one row; the keys come in sorted order and the dates of a key in
\* chronological order; the planned quantities are those of the key's plan row
\* of that date (the last one listed) or all 0 when there is none, and the
\* actual quantities those of the key's actual row of that date or all 0.
C18_OneRowPerKeyAndDate ==
    pc = "prune" \/ (pc = "style_skipped" /\ matched_rows = <<>>) =>
        LET plan   == SelectSeq(result_list, SameStyle)
            actual == SelectSeq(daily_prod_daywise, SameStyle)
            out    == matched_rows
            keys   == {PoColour(plan[i]) : i \in 1..Len(plan)}
        IN  /\ \A i \in 1..Len(out) :
                  LET k  == MatchedCombo(out[i])
                      d  == out[i].Date
                      lp == LastRowAt(plan, k, d)
                      la == LastRowAt(actual, k, d)
                  IN  /\ out[i].StyleNo = style_number
                      /\ k \in keys
                      /\ d \in DatesAt(plan, k) \cup DatesAt(actual, k)
                      /\ out[i].Planned = IF lp = 0 THEN ZeroQty ELSE plan[lp].Planned
                      /\ out[i].Actual = IF la = 0 THEN ZeroQty ELSE actual[la].Actual
            /\ \A k \in keys : \A d \in DatesAt(plan, k) \cup DatesAt(actual, k) :
                  Cardinality({i \in 1..Len(out) :
                                  MatchedCombo(out[i]) = k /\ out[i].Date = d}) = 1
            /\ \A i \in 1..Len(out) : \A j \in (i + 1)..Len(out) :
                  \/ ComboRank(MatchedCombo(out[i])) < ComboRank(MatchedCombo(out[j]))
                  \/ /\ MatchedCombo(out[i]) = MatchedCombo(out[j])
                     /\ Ordinal(Strptime(out[i].Date)) < Ordinal(Strptime(out[j].Date))

\* Two plan keys were matched; one of them has 02/Jan/25 before 01/Feb/25 (the
\* reverse of their order as strings), a date with an actual row only and a
\* date with a plan row only.
C18_Witness ==
    /\ pc = "prune"
    /\ \E i, j \in 1..Len(matched_rows) :
          MatchedCombo(matched_rows[i]) # MatchedCombo(matched_rows[j])
    /\ \E i, j \in 1..Len(matched_rows) :
          /\ i < j
          /\ MatchedCombo(matched_rows[i]) = MatchedCombo(matched_rows[j])
          /\ StringOrdinal(matched_rows[i].Date) > StringOrdinal(matched_rows[j].Date)
          /\ matched_rows[i].Planned # ZeroQty /\ matched_rows[i].Actual = ZeroQty
          /\ matched_rows[j].Planned = ZeroQty /\ matched_rows[j].Actual # ZeroQty

----------------------------------------------------------------------------
(* SpecAgg: add_cumulative_columns_to_matched_dict on every list of up to  *)
(* MaxAggRows matched rows, rows of one group sharing a date included.     *)

MaxAggRows == 3

AggRowSet ==
    {[StyleNo |-> k[1], PO |-> k[2], Colour |-> k[3], Date |-> d,
      Planned |-> q[1], Actual |-> q[2]] :
        k \in {<<"A1", "100", "red">>, <<"A1", "100", "blue">>},
        d \in {D(1, 1, 25), D(2, 1, 25), D(1, 2, 25)},
        q \in {<<Qty2(50, 0), Qty2(30, 0)>>, <<Qty2(20, 10), Qty2(25, 5)>>}}

InitAgg ==
    /\ pc = "aggregate"
    /\ style_number = "A1"
    /\ plan_sheet = <<>>
    /\ index = 0
    /\ parsed_dates = <<>>
    /\ result_list = <<>>
    /\ skipped_rows = <<>>
    /\ year_cautions = <<>>
    /\ year_fixes = <<>>
    /\ raw_actual = <<>>
    /\ daily_prod_data = <<>>
    /\ daily_prod_daywise = <<>>
    /\ clamp_warnings = <<>>
    /\ matched_rows \in SeqsUpTo(AggRowSet, MaxAggRows)
    /\ unplanned_rows = <<>>
    /\ report_rows = <<>>
    /\ output_file = <<>>
    /\ SingleStyle

NextAgg == Aggregate \/ Write

SpecAgg == InitAgg /\ [][NextAgg]_vars

----------------------------------------------------------------------------
(* Aggregator: the running totals (C19).                                   *)

\* The input rows of the group of row dated on or before row's date.
GroupRowsUpTo(rows, row) ==
    {i \in 1..Len(rows) :
        /\ GroupKey(rows[i]) = GroupKey(row)
        /\ Ordinal(Strptime(rows[i].Date)) <= Ordinal(Strptime(row.Date))}

\* C19: on every output row and in every stage the cumulative planned (actual)
\* quantity is the sum of the planned (actual) quantities of the input rows of
\* the row's (Style No, PO, Colour) group dated on or before the row's date, each
\* input row counted once; so the output rows of a group that share a date
\* carry the same cumulative quantities.
C19_CumulativeIsSumUpToDate ==
    pc = "write" =>
        /\ \A i \in 1..Len(report_rows) : \A s \in Stages :
              LET S == GroupRowsUpTo(matched_rows, report_rows[i])
              IN  /\ report_rows[i].CumPlanned[s] =
                        SumOver(S, [j \in S |-> matched_rows[j].Planned[s]])
                  /\ report_rows[i].CumActual[s] =
                        SumOver(S, [j \in S |-> matched_rows[j].Actual[s]])
        /\ \A i, j \in 1..Len(report_rows) :
              (/\ GroupKey(report_rows[i]) = GroupKey(report_rows[j])
               /\ report_rows[i].Date = report_rows[j].Date) =>
                  /\ report_rows[i].CumPlanned = report_rows[j].CumPlanned
                  /\ report_rows[i].CumActual = report_rows[j].CumActual

\* A group of three rows, two of them on one date with different quantities and
\* the third on a later date: the two carry the sum of both, the third the sum
\* of all three.
C19_Witness ==
    /\ pc = "write"
    /\ Len(report_rows) = 3
    /\ GroupKey(report_rows[1]) = GroupKey(report_rows[3])
    /\ GroupKey(report_rows[2]) = GroupKey(report_rows[3])
    /\ report_rows[1].Date = report_rows[2].Date
    /\ report_rows[1].Planned # report_rows[2].Planned
    /\ report_rows[3].Date # report_rows[2].Date
    /\ report_rows[1].CumPlanned["Cutting"] = 70
    /\ report_rows[2].CumPlanned["Cutting"] = 70
    /\ report_rows[2].CumActual["Cutting"] = 55
    /\ report_rows[3].CumPlanned["Cutting"] =
          70 + report_rows[3].Planned["Cutting"]

----------------------------------------------------------------------------
(* Aggregator: the rows of the output and their order (C20).               *)

\* The fields an output row shares with its input row.
InputFields(row) ==
    [StyleNo |-> row.StyleNo, PO |-> row.PO, Colour |-> row.Colour, Date |-> row.Date,
     Planned |-> row.Planned, Actual |-> row.Actual]

CountOf(rows, fields) ==
    Cardinality({i \in 1..Len(rows) : InputFields(rows[i]) = fields})

\* (Style No, PO, Colour, date) of a comes before that of b or equals it.
SortKeyLeq(a, b) ==
    LET ka == <<StrRank(a.StyleNo), StrRank(a.PO), StrRank(a.Colour),
                Ordinal(Strptime(a.Date))>>
        kb == <<StrRank(b.StyleNo), StrRank(b.PO), StrRank(b.Colour),
                Ordinal(Strptime(b.Date))>>
    IN  \/ ka = kb
        \/ \E n \in 1..4 : ka[n] < kb[n] /\ \A m \in 1..(n - 1) : ka[m] = kb[m]

\* C20: the aggregator's output has one row for each input row, with the input
\* row's Style No, PO, Colour, Date and ten quantities, none added and none
\* lost, and is sorted by (Style No, PO, Colour, date), the date compared
\* chronologically.
C20_SameRowsSorted ==
    pc = "write" =>
        /\ Len(report_rows) = Len(matched_rows)
        /\ \A i \in 1..Len(matched_rows) :
              CountOf(report_rows, InputFields(matched_rows[i])) =
                  CountOf(matched_rows, InputFields(matched_rows[i]))
        /\ \A i \in 1..Len(report_rows) : \A j \in (i + 1)..Len(report_rows) :
              SortKeyLeq(report_rows[i], report_rows[j])

\* Three input rows listed against the order: a red row before a blue one, and
\* 01/Feb/25 before 02/Jan/25 in a group; the output lists blue first and the
\* January row before the February row.
C20_Witness ==
    /\ pc = "write"
    /\ Len(matched_rows) = 3
    /\ matched_rows[1].Colour = "red" /\ matched_rows[1].Date = D(1, 2, 25)
    /\ matched_rows[2].Colour = "blue"
    /\ matched_rows[3].Colour = "red" /\ matched_rows[3].Date = D(2, 1, 25)
    /\ report_rows[1].Colour = "blue"
    /\ InputFields(report_rows[2]) = InputFields(matched_rows[3])
    /\ InputFields(report_rows[3]) = InputFields(matched_rows[1])

----------------------------------------------------------------------------
(* Row pruner: a filter that keeps order and is idempotent (C21).          *)

\* out is a subsequence of inp: its rows are rows of inp, unchanged, taken at
\* increasing positions.
IsSubsequence(out, inp) ==
    \E f \in [1..Len(out) -> 1..Len(inp)] :
        /\ \A i \in 1..Len(out) : inp[f[i]] = out[i]
        /\ \A i, j \in 1..Len(out) : i < j => f[i] < f[j]

\* C21: the pruner's output is a subsequence of its input, every surviving
\* row unmodified and in its original relative order; pruning the output again
\* returns the output; and the step changes nothing but the pruned list (the
\* plan rows and the day-wise rows the list was built from stay as they were).
C21_PrunerIsIdempotentFilter ==
    [][Prune =>
          /\ IsSubsequence(matched_rows', matched_rows)
          /\ DeleteEmptyRows(matched_rows') = matched_rows'
          /\ UNCHANGED <<result_list, daily_prod_daywise, unplanned_rows>>]_vars

\* The pruner removed the first row of its input and kept the two rows listed
\* after it.
C21_Witness ==
    /\ pc = "aggregate"
    /\ LET inp == MatchPlanWithActual(result_list, daily_prod_daywise, style_number)
       IN  /\ Len(inp) = 3
           /\ TotalQuantity(inp[1]) = 0
           /\ matched_rows = <<inp[2], inp[3]>>
           /\ inp[2] # inp[3]

----------------------------------------------------------------------------
(* do_everything: the order of the stages (C22).                           *)

\* The position of a stage within the run of one style.
StageRank(p) ==
    CASE p = "begin"         -> 0
      [] p = "start"         -> 1
      [] p = "convert"       -> 2
      [] p = "plan"          -> 3
      [] p = "match"         -> 4
      [] p = "prune"         -> 5
      [] p = "aggregate"     -> 6
      [] p = "write"         -> 7
      [] p = "style_skipped" -> 7
      [] p = "loop_done"     -> 8
      [] OTHER               -> 9

InStyleLoop(p) == p \in {"plan", "match", "prune", "aggregate", "write", "style_skipped"}

\* C22: every step of a run either moves on to a later stage of the style at
\* hand or starts the next style at its plan stage, so no stage is entered twice
\* for a style; while the styles are processed the extracted and the converted
\* actual rows are complete and stay as they are; the matcher gets the whole
\* output of the plan normalizer, the pruner the whole output of the matcher,
\* the aggregator the whole output of the pruner; and the file is written at
\* most once, after the last style.
C22_StagesInOrder ==
    [][/\ \/ style_index' > style_index /\ pc' \in {"start", "plan", "aborted"}
          \/ style_index' = style_index /\ StageRank(pc') > StageRank(pc)
       /\ InStyleLoop(pc) =>
             /\ daily_prod_data = GetRowWiseDataFromDailyProd(raw_actual)
             /\ daily_prod_daywise = ConvertCumulativeToDaywise(daily_prod_data)
             /\ UNCHANGED <<daily_prod_data, daily_prod_daywise, style_numbers>>
       /\ pc' = "match" =>
             /\ pc = "plan"
             /\ result_list' = PlanLoop(plan_sheet, 0, style_number, PlanStart).result
       /\ pc' = "prune" =>
             /\ pc = "match"
             /\ matched_rows' =
                   MatchPlanWithActual(result_list, daily_prod_daywise, style_number)
       /\ pc' = "aggregate" =>
             /\ pc = "prune"
             /\ matched_rows' = DeleteEmptyRows(matched_rows)
       /\ pc' = "write" =>
             /\ pc = "aggregate"
             /\ report_rows' =
                   StampOrderQuantity(AddCumulativeColumns(matched_rows), daily_prod_data)
       /\ disk_file' # disk_file =>
             /\ pc = "loop_done" /\ pc' = "done"
             /\ style_index = Len(style_numbers)
             /\ disk_file = NoFile]_vars

\* A run over two styles stored both and wrote the file.
C22_Witness ==
    /\ pc = "done"
    /\ Len(style_numbers) = 2
    /\ style_index = 2
    /\ Len(matched_data_by_style) = 2
    /\ disk_file.exists

----------------------------------------------------------------------------
(* Mismatch diagnostics over a whole run (C23).                            *)

\* The plan rows the normalizer returns for a style of the workbook.
PlanOfStyle(book, style) == PlanLoop(SheetRowsOf(book, style), 0, style, PlanStart).result

\* The styles for which the run called the matcher.
StylesMatched(book, styles) ==
    {styles[i] : i \in {j \in 1..Len(styles) : PlanOfStyle(book, styles[j]) # <<>>}}

\* The tracking keys planned in the run: those of the plan rows the matcher
\* took for one of the styles.
KeysPlanned(book, styles) ==
    UNION {{ComboKey(r) : r \in {RowsForStyle(PlanOfStyle(book, st), st)[i] :
                                    i \in 1..Len(RowsForStyle(PlanOfStyle(book, st), st))}} :
           st \in StylesMatched(book, styles)}

\* Some call of the matcher in the run emitted a diagnostic for the row.
ReportedInRun(book, styles, daywise, row) ==
    \E st \in StylesMatched(book, styles) :
        /\ Upper(Strip(row.StyleNo)) = Upper(Strip(st))
        /\ LET ds == UnplannedRows(PlanOfStyle(book, st), daywise, st)
           IN  \E k \in 1..Len(ds) :
                 /\ ds[k].po = Strip(row.PO)
                 /\ ds[k].colour = Lower(Strip(row.Colour))
                 /\ ds[k].date = row.Date

\* C23: when the style loop of a run has ended, every day-wise actual row whose
\* (style, po, colour) key is not planned has been reported by a mismatch
\* diagnostic of the run, also when its style matches no plan style.
C23_UnplannedRowsReported ==
    pc \in {"loop_done", "done"} =>
        LET book    == plan_book
            styles  == style_numbers
            daywise == daily_prod_daywise
            planned == KeysPlanned(book, styles)
        IN  \A i \in 1..Len(daywise) :
              ComboKey(daywise[i]) \notin planned =>
                  ReportedInRun(book, styles, daywise, daywise[i])

----------------------------------------------------------------------------
(* Actual normalizer: the style token (C24).                               *)

\* C24: every accepted actual row carries its style cell trimmed, with "PID-"
\* or "PID" removed only when the trimmed cell starts with it; a cell that does
\* not start with "PID" is carried unchanged, also when it holds "PID" further
\* on.
C24_PidStrippedAsPrefix ==
    pc = "convert" =>
        LET accepted == SelectSeq(raw_actual, ActualAccepted)
        IN  /\ Len(daily_prod_data) = Len(accepted)
            /\ \A k \in 1..Len(accepted) :
                  daily_prod_data[k].StyleNo = StyleTokenPrefixOnly(accepted[k].style)

----------------------------------------------------------------------------
(* Matcher: conservation of the quantities (C25).                          *)

\* The sum of the stage's quantity in the given field over the rows of the
\* style at hand with tracking key k.
KeyTotal(rows, k, field, stage) ==
    LET S == {i \in 1..Len(rows) : SameStyle(rows[i]) /\ ComboKey(rows[i]) = k}
    IN  SumOver(S, [i \in S |-> rows[i][field][stage]])

\* C25: for every plan key of the style and every stage, the planned
\* quantities of the matched rows of the key add up to those of the plan rows
\* of the key, and the actual quantities of the matched rows to the day-wise
\* quantities the converter emitted for the key, also when two rows share a key
\* and a date.
C25_MatcherConservesQuantities ==
    pc = "prune" =>
        LET plan    == result_list
            daywise == daily_prod_daywise
            out     == matched_rows
        IN  \A k \in PlanKeysOfStyle : \A s \in Stages :
              /\ KeyTotal(out, k, "Planned", s) = KeyTotal(plan, k, "Planned", s)
              /\ KeyTotal(out, k, "Actual", s) = KeyTotal(daywise, k, "Actual", s)

----------------------------------------------------------------------------
(* Plan normalizer: the years of the accepted rows (C26, C27).             *)

\* C26: every row the plan normalizer has accepted, repaired or not, carries a
\* year from 2020 to 2050.
C26_AcceptedYearInWindow ==
    \A k \in 1..Len(parsed_dates) :
        parsed_dates[k].date.year \in MinPlausibleYear..MaxPlausibleYear

\* C27: a row accepted after a year repair gets no chronology caution: when a
\* row was accepted before it, the repaired year is that row's year; the next
\* row's year is adopted only when no row was accepted before it.
C27_RepairedRowNotCautioned ==
    \A f \in 1..Len(year_fixes) :
        LET i == year_fixes[f].row - 2
        IN  /\ AcceptedAt(i) # {}
            /\ CautionsFor(i) = {}
            /\ AcceptedBefore(i) # {} => year_fixes[f].to = AboveYear(i)
            /\ AcceptedBefore(i) = {} => year_fixes[f].to = BelowYear(i)

\* A sheet of three rows: the first repaired with the next row's year, the
\* third repaired with the year of the row above; one other row of the sheet
\* would have been cautioned had it kept a year below the previous one.
C27_Witness ==
    /\ pc = "returned"
    /\ Len(year_fixes) = 2
    /\ Len(parsed_dates) = 3
    /\ AcceptedBefore(year_fixes[1].row - 2) = {}
    /\ year_fixes[1].to = BelowYear(year_fixes[1].row - 2)
    /\ AcceptedBefore(year_fixes[2].row - 2) # {}
    /\ year_fixes[2].from = 2010
    /\ year_fixes[2].to = AboveYear(year_fixes[2].row - 2)
    /\ year_cautions = <<>>

----------------------------------------------------------------------------
(* Day-wise converter: independence of the order of the input list (C28).  *)

\* Every tracking key has at most one row per date.
OneRowPerKeyAndDate(data) ==
    \A i, j \in 1..Len(data) :
        (ComboKey(data[i]) = ComboKey(data[j]) /\ data[i].Date = data[j].Date) => i = j

IndexPermutations(n) ==
    {p \in [1..n -> 1..n] : \A i, j \in 1..n : p[i] = p[j] => i = j}

Permuted(data, p) == [i \in 1..Len(data) |-> data[p[i]]]

Occurrences(rows, row) == Cardinality({i \in 1..Len(rows) : rows[i] = row})

SameRowsWithMultiplicity(a, b) ==
    /\ Len(a) = Len(b)
    /\ \A i \in 1..Len(a) : Occurrences(a, a[i]) = Occurrences(b, a[i])

KeyFieldsAndDate(row) == <<row.StyleNo, row.PO, row.Colour, row.Date>>

KeyFieldsOf(rows) == [i \in 1..Len(rows) |-> KeyFieldsAndDate(rows[i])]

\* C28: when every tracking key has at most one row per date, the converter
\* returns the same rows (with multiplicity) for every permutation of the
\* input list, one output row per input row with style, PO, colour and date
\* unchanged, in ascending date order.
C28_ConverterIgnoresInputOrder ==
    (pc # "convert" /\ OneRowPerKeyAndDate(daily_prod_data)) =>
        /\ \A p \in IndexPermutations(Len(daily_prod_data)) :
               SameRowsWithMultiplicity(
                   ConvertCumulativeToDaywise(Permuted(daily_prod_data, p)),
                   daily_prod_daywise)
        /\ SameRowsWithMultiplicity(KeyFieldsOf(daily_prod_daywise),
                                    KeyFieldsOf(daily_prod_data))
        /\ \A i \in 1..Len(daily_prod_daywise) - 1 :
               Ordinal(Strptime(daily_prod_daywise[i].Date))
                   <= Ordinal(Strptime(daily_prod_daywise[i + 1].Date))

\* Three rows given latest date first: one key on two dates and a second key
\* sharing the later date; the later row of the first key comes out as a
\* difference.
C28_Witness ==
    /\ pc # "convert"
    /\ OneRowPerKeyAndDate(daily_prod_data)
    /\ Len(daily_prod_data) = 3
    /\ ComboKey(daily_prod_data[1]) = ComboKey(daily_prod_data[3])
    /\ ComboKey(daily_prod_data[2]) # ComboKey(daily_prod_data[1])
    /\ daily_prod_data[1].Date = daily_prod_data[2].Date
    /\ Ordinal(Strptime(daily_prod_data[3].Date))
           < Ordinal(Strptime(daily_prod_data[1].Date))
    /\ daily_prod_daywise[1].Date = daily_prod_data[3].Date
    /\ \E i \in 2..3 :
           /\ KeyFieldsAndDate(daily_prod_daywise[i]) = KeyFieldsAndDate(daily_prod_data[1])
           /\ daily_prod_daywise[i].Actual # daily_prod_data[1].Actual

----------------------------------------------------------------------------
(* Pruner and aggregator: running totals with and without pruning (C29).   *)

\* The rows of an aggregated list that carry the key and date of row.
SameKeyAndDate(rows, row) ==
    {i \in 1..Len(rows) : /\ MatchedCombo(rows[i]) = MatchedCombo(row)
                          /\ rows[i].Date = row.Date}

\* Every row aggregated from the pruned list has the running totals of the
\* row of its key and date aggregated from the unpruned list.
SameRunningTotals(pruned, unpruned) ==
    LET a == AddCumulativeColumns(pruned)
        b == AddCumulativeColumns(unpruned)
    IN  \A i \in 1..Len(a) :
            /\ SameKeyAndDate(b, a[i]) # {}
            /\ \A j \in SameKeyAndDate(b, a[i]) :
                   /\ a[i].CumPlanned = b[j].CumPlanned
                   /\ a[i].CumActual = b[j].CumActual
                   /\ a[i].CumDiff = b[j].CumDiff

\* C29: a row that survives the pruner gets the same cumulative planned,
\* cumulative actual and cumulative variance whether the aggregator runs on
\* the pruned or on the unpruned matched rows.
C29_PruningCommutesWithAggregation ==
    pc = "aggregate" =>
        SameRunningTotals(matched_rows,
            MatchPlanWithActual(result_list, daily_prod_daywise, style_number))

\* The same on the runs whose plan rows carry no negative quantity.
PruningCommutesNonNegativePlan ==
    NonNegativePlan => C29_PruningCommutesWithAggregation

----------------------------------------------------------------------------
(* do_everything: the Order Quantity stamped on the report rows (C30).     *)

\* The rows of the daily production data, in extraction order, of the
\* tracking key of a report row.
ActualRowsOfKey(data, row) == {i \in 1..Len(data) : ComboKey(data[i]) = ComboKey(row)}

\* The row without its Order Quantity.
Unstamped(row) ==
    [StyleNo |-> row.StyleNo, PO |-> row.PO, Colour |-> row.Colour, Date |-> row.Date,
     Day |-> row.Day, Planned |-> row.Planned, Actual |-> row.Actual,
     DayDiff |-> row.DayDiff, CumPlanned |-> row.CumPlanned,
     CumActual |-> row.CumActual, CumDiff |-> row.CumDiff]

\* C30: every report row carries the Order Quantity of the first row, in
\* extraction order, of its tracking key in the daily production data, 0 when
\* the key has no such row; rows of one key carry the same value; the stamp
\* changes no other field of the aggregated row.
C30_OrderQuantityOfFirstActualRow ==
    pc = "write" =>
        LET aggregated == AddCumulativeColumns(matched_rows)
        IN  /\ Len(report_rows) = Len(aggregated)
            /\ \A i \in 1..Len(report_rows) :
                   LET hits == ActualRowsOfKey(daily_prod_data, report_rows[i])
                   IN  /\ hits = {} => report_rows[i].OrderQuantity = 0
                       /\ \A h \in hits :
                              (\A g \in hits : h <= g) =>
                                  report_rows[i].OrderQuantity
                                      = daily_prod_data[h].OrderQuantity
                       /\ Unstamped(report_rows[i]) = aggregated[i]
            /\ \A i, j \in 1..Len(report_rows) :
                   ComboKey(report_rows[i]) = ComboKey(report_rows[j])
                       => report_rows[i].OrderQuantity = report_rows[j].OrderQuantity

\* The sheet of 02/Jan/2025 read before the sheet of 01/Jan/2025, with Order
\* Quantity 200 and 100 for the same key: both report rows carry 200.
C30_Witness ==
    /\ pc = "write"
    /\ Len(daily_prod_data) = 2
    /\ ComboKey(daily_prod_data[1]) = ComboKey(daily_prod_data[2])
    /\ daily_prod_data[1].Date = D(2, 1, 25)
    /\ daily_prod_data[2].Date = D(1, 1, 25)
    /\ daily_prod_data[1].OrderQuantity = 200
    /\ daily_prod_data[2].OrderQuantity = 100
    /\ Len(report_rows) = 2
    /\ \A i \in 1..2 : /\ ComboKey(report_rows[i]) = ComboKey(daily_prod_data[1])
                        /\ report_rows[i].OrderQuantity = 200

====
